---------------------------- MODULE Spec2Model ----------------------------
(***************************************************************************)
(* A model of the ML research dashboard API (jeanmhuang/MLResearchDashboard) *)
(*                                                                         *)
(*   src/arxiv.js         the simple arXiv handler and its parseArxivXML   *)
(*   src/api/enhanced.js  the multi-source handler: searchPapers, the two  *)
(*                        source adapters, deduplicatePapers, the scores   *)
(*   src/api/arxiv.js     the "ultimate" handler (lines 1-621) and the     *)
(*                        arXiv endpoint handler (lines 623-790)           *)
(*   src/api/test.js      the test endpoint                                *)
(*                                                                         *)
(* JavaScript strings are sequences of tokens.  A token is one character   *)
(* ("a", " ", "\n") or one lexical unit of the feed that the regular       *)
(* expressions of the code match as a whole ("<entry>", "</title>",        *)
(* "/abs/").  Every string operation of the code (trim, split, replace,    *)
(* toLowerCase, substring, the regular expressions) is an operator on      *)
(* these sequences.  null and undefined are the value Undefined.           *)
(***************************************************************************)
EXTENDS Integers, Sequences, FiniteSets, TLC

VARIABLES
    pc,         \* where the request being served is: idle, fetching, done
    req,        \* the request: handler, method, action, sources, query
    arxivP,     \* the promise of the arXiv adapter / upstream call
    semanticP,  \* the promise of the Semantic Scholar adapter
    responses,  \* the responses sent for the request, in order
    caught,     \* the message of the exception the handler's catch got
    arg,        \* input of the pure function under study
    ret,        \* its result
    op          \* the function that produced ret

vars == <<pc, req, arxivP, semanticP, responses, caught, arg, ret, op>>

---------------------------------------------------------------------------
(* Bounds of the model *)

\* entries per upstream feed and paper objects per upstream data array
MaxEntries == 2
\* records in a list handed to a dedup function on its own
MaxPapers == 3
\* tokens in a feed document handed to an entry parser on its own
MaxDocLen == 5
\* characters by which an abstract may exceed the truncation length
MaxOverflow == 4
\* keywords in an interest list handed to calculateRelevanceScore on its own
MaxInterests == 2
\* tokens after the host in an id handed to the id derivations on their own
MaxIdLen == 4
\* author elements in an entry handed to the record builders on their own
MaxAuthors == 4
\* elements with a term attribute in such an entry
MaxTerms == 4
\* citations of a paper handed to calculateCitationVelocity on its own
MaxCitations == 61
\* days between the publication of such a paper and today, either way
MaxAgeDays == 181
MaxAnalysed == 2
RandomResolution == 4
MaxVelocity == 12
MaxCalls == 3
MaxFragmentLen == 4

\* summary.substring(0, 300), summary.length > 300
AbstractLimit == 300
\* scoredPapers.slice(0, 20)
FeedLimit == 20
\* trendingPapers.slice(0, 10)
TrendingLimit == 10
RandomRange == 50

---------------------------------------------------------------------------
(* JavaScript values and strings *)

Undefined == <<"undefined">>

IsString(v) == v # Undefined

\* 'No abstract available', 'Untitled', 'Unknown', ' et al.', ', ', '...'
NoAbstract ==
    <<"N","o"," ","a","b","s","t","r","a","c","t"," ",
      "a","v","a","i","l","a","b","l","e">>
Untitled == <<"U","n","t","i","t","l","e","d">>
Unknown == <<"U","n","k","n","o","w","n">>
EtAl == <<" ","e","t"," ","a","l",".">>
CommaSpace == <<","," ">>
Ellipsis == <<".",".",".">>

UpperCase ==
    <<"A","B","C","D","E","F","G","H","I","J","K","L","M",
      "N","O","P","Q","R","S","T","U","V","W","X","Y","Z">>
LowerCase ==
    <<"a","b","c","d","e","f","g","h","i","j","k","l","m",
      "n","o","p","q","r","s","t","u","v","w","x","y","z">>
Digits == {"0","1","2","3","4","5","6","7","8","9"}

Range(s) == {s[i] : i \in DOMAIN s}

\* \s of the regular expressions, and the characters trim() removes
IsSpace(c) == c \in {" ", "\n", "\t", "\r"}

\* the lower-case letter of every upper-case letter
LowerOf ==
    [c \in Range(UpperCase) |->
        LowerCase[CHOOSE i \in DOMAIN UpperCase : UpperCase[i] = c]]

ToLowerChar(c) == IF c \in DOMAIN LowerOf THEN LowerOf[c] ELSE c

\* String.prototype.toLowerCase
ToLowerCase(s) == [i \in DOMAIN s |-> ToLowerChar(s[i])]

NotSpace(c) == ~IsSpace(c)
IsAlnum(c) == c \in Range(LowerCase) \cup Digits

\* s.replace(/\s+/g, '')
RemoveSpaces(s) == SelectSeq(s, NotSpace)

\* s.replace(/[^a-z0-9]/g, '')
KeepAlnum(s) == SelectSeq(s, IsAlnum)

\* the least index i >= from with s[i] in T, or 0
FirstFrom(s, from, T) ==
    LET hits == {i \in from..Len(s) : s[i] \in T}
    IN  IF hits = {} THEN 0 ELSE CHOOSE i \in hits : \A j \in hits : i <= j

\* the least index i >= from with s[i] = t, or 0
IndexOfFrom(s, t, from) ==
    LET hits == {i \in from..Len(s) : s[i] = t}
    IN  IF hits = {} THEN 0 ELSE CHOOSE i \in hits : \A j \in hits : i <= j

IndexOf(s, t) == IndexOfFrom(s, t, 1)

\* String.prototype.trim
Trim(s) ==
    LET keep == {i \in DOMAIN s : ~IsSpace(s[i])}
    IN  IF keep = {} THEN <<>>
        ELSE LET lo == CHOOSE i \in keep : \A j \in keep : i <= j
                 hi == CHOOSE i \in keep : \A j \in keep : j <= i
             IN  SubSeq(s, lo, hi)

\* s.replace(/\n/g, ' ').replace(/\s+/g, ' '): every run of white space
\* becomes one space
RECURSIVE CollapseSpaces(_)
CollapseSpaces(s) ==
    IF s = <<>> THEN <<>>
    ELSE IF IsSpace(Head(s))
         THEN LET rest == CollapseSpaces(Tail(s))
              IN  IF rest # <<>> /\ Head(rest) = " " THEN rest
                  ELSE <<" ">> \o rest
         ELSE <<Head(s)>> \o CollapseSpaces(Tail(s))

\* s.split(t)[0]
SplitFirst(s, t) ==
    LET i == IndexOf(s, t)
    IN  IF i = 0 THEN s ELSE SubSeq(s, 1, i - 1)

\* s.split(t)[1]: what lies between the first and the second t;
\* undefined when s holds no t
SplitSecond(s, t) ==
    LET i == IndexOf(s, t)
    IN  IF i = 0 THEN Undefined
        ELSE LET j == IndexOfFrom(s, t, i + 1)
             IN  IF j = 0 THEN SubSeq(s, i + 1, Len(s))
                 ELSE SubSeq(s, i + 1, j - 1)

\* s.replace('http://', 'https://'): the first occurrence only
SecureScheme(s) ==
    LET i == IndexOf(s, "http://")
    IN  IF i = 0 THEN s ELSE [s EXCEPT ![i] = "https://"]

\* parts.join(sep)
RECURSIVE Join(_, _)
Join(parts, sep) ==
    IF parts = <<>> THEN <<>>
    ELSE IF Len(parts) = 1 THEN parts[1]
    ELSE parts[1] \o sep \o Join(Tail(parts), sep)

\* list.slice(0, n)
Take(s, n) == SubSeq(s, 1, IF Len(s) < n THEN Len(s) ELSE n)

\* a || b for strings: the empty string is falsy
OrElse(a, b) == IF a = <<>> \/ a = Undefined THEN b ELSE a

---------------------------------------------------------------------------
(* The feed: tokens and the regular expressions of the entry parsers *)

\* the tokens that a pattern <field[^>]*> matches
OpenTagsOf(field) ==
    CASE field = "title" -> {"<title>", "<title type=\"html\">", "<titles>"}
      [] field = "summary" -> {"<summary>"}
      [] field = "id" -> {"<id>"}
      [] field = "published" -> {"<published>"}
      [] field = "updated" -> {"<updated>"}

\* the token </field>
CloseTagOf(field) ==
    CASE field = "title" -> "</title>"
      [] field = "summary" -> "</summary>"
      [] field = "id" -> "</id>"
      [] field = "published" -> "</published>"
      [] field = "updated" -> "</updated>"

\* the category elements and the other elements carrying a term attribute
CategoryTags == {"<category term=\"cs.LG\"/>", "<category term=\"cs.AI\"/>"}
OtherTermTags == {"<arxiv:primary_category term=\"cs.LG\"/>"}

\* the value of the term attribute of a token
TermOf(tok) ==
    CASE tok = "<category term=\"cs.LG\"/>" -> <<"cs.LG">>
      [] tok = "<category term=\"cs.AI\"/>" -> <<"cs.AI">>
      [] tok = "<arxiv:primary_category term=\"cs.LG\"/>" -> <<"cs.LG">>

\* the link elements whose href ends in .pdf, and that href
PdfLinkTags == {"<link href=\"http://arxiv.org/pdf/1234.5678.pdf\"/>"}
HrefOf(tok) == <<"http://", "arxiv.org", "/", "pdf", "/", "1234.5678", ".pdf">>

\* every token that holds a "<"
MarkupTokens ==
    {"<feed>", "</feed>", "<entry>", "</entry>", "<author>", "</author>",
     "<name>", "</name>", "<![CDATA[", "<link href=\"http://arxiv.org/abs/1234.5678\"/>",
     "</titles>"}
    \cup UNION {OpenTagsOf(f) : f \in {"title", "summary", "id", "published", "updated"}}
    \cup {CloseTagOf(f) : f \in {"title", "summary", "id", "published", "updated"}}
    \cup CategoryTags \cup OtherTermTags \cup PdfLinkTags

\* entry.match(new RegExp(`<${field}[^>]*>([\\s\\S]*?)<\/${field}>`)):
\* the match starts at the first opening tag that a closing tag follows and
\* ends, lazily, at the first closing tag after it; group 1 is what lies
\* between.  The result is match ? match[1].trim() : ''
getField(entry, field) ==
    LET open == FirstFrom(entry, 1, OpenTagsOf(field))
        close == IF open = 0 THEN 0
                 ELSE IndexOfFrom(entry, CloseTagOf(field), open + 1)
    IN  IF open = 0 \/ close = 0 THEN <<>>
        ELSE Trim(SubSeq(entry, open + 1, close - 1))

\* entry.matchAll(/<name>([^<]+)<\/name>/g): every <name>, one or more
\* tokens without "<", </name>; each match[1].trim(), in document order
RECURSIVE NamesFrom(_, _)
NamesFrom(entry, from) ==
    LET open == IndexOfFrom(entry, "<name>", from)
    IN  IF open = 0 THEN <<>>
        ELSE LET stop == FirstFrom(entry, open + 1, MarkupTokens)
             IN  IF stop > open + 1 /\ entry[stop] = "</name>"
                 THEN <<Trim(SubSeq(entry, open + 1, stop - 1))>>
                          \o NamesFrom(entry, stop + 1)
                 ELSE NamesFrom(entry, open + 1)

\* the term attributes of the tokens of entry that are in T, in order
TermsWhere(entry, T) ==
    LET Carries(t) == t \in T
        hits == SelectSeq(entry, Carries)
    IN  [i \in DOMAIN hits |-> TermOf(hits[i])]

\* text.replace(/<!\[CDATA\[(.*?)\]\]>/g, '$1'): a CDATA wrapper is
\* unwrapped when no line break lies inside it (. matches no line break)
RECURSIVE UnwrapCDATA(_)
UnwrapCDATA(s) ==
    LET open == IndexOf(s, "<![CDATA[")
        close == IF open = 0 THEN 0 ELSE IndexOfFrom(s, "]]>", open + 1)
    IN  IF open = 0 \/ close = 0 THEN s
        ELSE IF "\n" \in Range(SubSeq(s, open + 1, close - 1))
             THEN SubSeq(s, 1, open) \o UnwrapCDATA(SubSeq(s, open + 1, Len(s)))
             ELSE SubSeq(s, 1, open - 1) \o SubSeq(s, open + 1, close - 1)
                      \o UnwrapCDATA(SubSeq(s, close + 1, Len(s)))

\* xmlText.split('<entry>').slice(1): what follows each <entry>, up to the
\* next <entry> or the end of the document
\* split('<entry>') with the text before the first <entry> kept
RECURSIVE SplitKeepingHead(_)
SplitKeepingHead(xmlText) ==
    LET open == IndexOf(xmlText, "<entry>")
    IN  IF open = 0 THEN <<xmlText>>
        ELSE <<SubSeq(xmlText, 1, open - 1)>>
                 \o SplitKeepingHead(SubSeq(xmlText, open + 1, Len(xmlText)))

RECURSIVE SplitEntries(_)
SplitEntries(xmlText) ==
    LET open == IndexOf(xmlText, "<entry>")
    IN  IF open = 0 THEN <<>>
        ELSE LET next == IndexOfFrom(xmlText, "<entry>", open + 1)
                 stop == IF next = 0 THEN Len(xmlText) ELSE next - 1
             IN  <<SubSeq(xmlText, open + 1, stop)>>
                     \o SplitEntries(SubSeq(xmlText, stop + 1, Len(xmlText)))

\* the entry pattern without its g flag: only the first match is found
MatchEntriesFirstOnly(xmlText) ==
    LET open == IndexOf(xmlText, "<entry>")
        close == IF open = 0 THEN 0 ELSE IndexOfFrom(xmlText, "</entry>", open + 1)
    IN  IF open = 0 \/ close = 0 THEN <<>>
        ELSE <<SubSeq(xmlText, open + 1, close - 1)>>

\* the loop over /<entry>([\s\S]*?)<\/entry>/g with exec: each match runs
\* from an <entry> to the first </entry> after it, and the search goes on
\* after that </entry>
RECURSIVE MatchEntries(_)
MatchEntries(xmlText) ==
    LET open == IndexOf(xmlText, "<entry>")
        close == IF open = 0 THEN 0 ELSE IndexOfFrom(xmlText, "</entry>", open + 1)
    IN  IF open = 0 \/ close = 0 THEN <<>>
        ELSE <<SubSeq(xmlText, open + 1, close - 1)>>
                 \o MatchEntries(SubSeq(xmlText, close + 1, Len(xmlText)))

---------------------------------------------------------------------------
(* The entry parsers *)

\* the truncation with the ellipsis added from 300 characters on
TruncateAtOrAbove(summary) ==
    Take(summary, AbstractLimit)
        \o (IF Len(summary) >= AbstractLimit THEN Ellipsis ELSE <<>>)

\* summary.substring(0, 300) + (summary.length > 300 ? '...' : '')
Truncate(summary) ==
    Take(summary, AbstractLimit)
        \o (IF Len(summary) > AbstractLimit THEN Ellipsis ELSE <<>>)

TermTags == CategoryTags \cup OtherTermTags

\* src/arxiv.js: arxivId: id.split('/abs/')[1] || id
SimpleArxivId(id) == OrElse(SplitSecond(id, "/abs/"), id)

\* src/arxiv.js: the record parseArxivXML pushes for one entry
SimpleRecord(entry) ==
    LET title == CollapseSpaces(getField(entry, "title"))
        summary == CollapseSpaces(getField(entry, "summary"))
        id == getField(entry, "id")
        authors == Take(NamesFrom(entry, 1), 3)
        pdf == FirstFrom(entry, 1, PdfLinkTags)
    IN  [title |-> title,
         abstract |-> Truncate(summary),
         authors |-> Join(authors, CommaSpace)
                         \o (IF Len(authors) >= 3 THEN EtAl ELSE <<>>),
         published |-> SplitFirst(getField(entry, "published"), "T"),
         updated |-> SplitFirst(getField(entry, "updated"), "T"),
         arxivId |-> SimpleArxivId(id),
         url |-> SecureScheme(id),
         pdfUrl |-> IF pdf = 0 THEN Undefined ELSE SecureScheme(HrefOf(entry[pdf])),
         categories |-> Take(TermsWhere(entry, TermTags), 3)]

\* src/arxiv.js: parseArxivXML
SimpleParse(xmlText) ==
    LET entries == SplitEntries(xmlText)
    IN  [i \in DOMAIN entries |-> SimpleRecord(entries[i])]

\* src/api/enhanced.js: the record parseArxivXML pushes for one entry
EnhancedRecord(entry) ==
    LET authors == NamesFrom(entry, 1)
    IN  [title |-> CollapseSpaces(getField(entry, "title")),
         abstract |-> CollapseSpaces(getField(entry, "summary")),
         authors |-> Join(Take(authors, 3), CommaSpace)
                         \o (IF Len(authors) > 3 THEN EtAl ELSE <<>>),
         published |-> SplitFirst(getField(entry, "published"), "T"),
         url |-> SecureScheme(getField(entry, "id")),
         source |-> "arxiv"]

\* src/api/enhanced.js: parseArxivXML
parseArxivXML(xmlText) ==
    LET entries == SplitEntries(xmlText)
    IN  [i \in DOMAIN entries |-> EnhancedRecord(entries[i])]

\* the tokens that /(\d{4}\.\d{4,5})/ matches
ArxivNumbers == {"1234.5678", "2401.00001", "2401.00002"}

\* the least i with id[i] = "arxiv.org" and id[i + 1] = "/", or 0:
\* where 'arxiv.org/' occurs in an id that holds no '/abs/'
HostSlashFrom(id, from) ==
    LET hits == {i \in from..(Len(id) - 1) : id[i] = "arxiv.org" /\ id[i + 1] = "/"}
    IN  IF hits = {} THEN 0 ELSE CHOOSE i \in hits : \A j \in hits : i <= j

\* src/api/arxiv.js: the arXiv id of an entry's id field
ArxivIdOf(id) ==
    IF IndexOf(id, "/abs/") # 0 THEN SplitSecond(id, "/abs/")
    ELSE IF HostSlashFrom(id, 1) # 0
    THEN LET i == HostSlashFrom(id, 1)
             j == HostSlashFrom(id, i + 2)
         IN  IF j = 0 THEN SubSeq(id, i + 2, Len(id))
             ELSE SubSeq(id, i + 2, j - 1)
    ELSE LET n == FirstFrom(id, 1, ArxivNumbers)
         IN  IF n = 0 THEN id ELSE <<id[n]>>

\* src/api/arxiv.js: extractText(tag).replace(CDATA).replace(/\n/g, ' ')
\* .replace(/\s+/g, ' ').trim()
CleanText(entry, tag) ==
    Trim(CollapseSpaces(UnwrapCDATA(getField(entry, tag))))

\* src/api/arxiv.js: the paper object the endpoint builds for one entry
EndpointRecord(entry) ==
    LET arxivId == ArxivIdOf(getField(entry, "id"))
        authors == NamesFrom(entry, 1)
        published == SplitFirst(getField(entry, "published"), "T")
        updated == SplitFirst(getField(entry, "updated"), "T")
    IN  [id |-> arxivId,
         title |-> OrElse(CleanText(entry, "title"), Untitled),
         authors |-> IF Len(authors) > 0 THEN authors ELSE <<Unknown>>,
         abstract |-> OrElse(CleanText(entry, "summary"), NoAbstract),
         published |-> OrElse(published, OrElse(updated, <<>>)),
         updated |-> OrElse(updated, OrElse(published, <<>>)),
         categories |-> TermsWhere(entry, CategoryTags),
         pdfUrl |-> IF arxivId = <<>> THEN <<>>
                    ELSE <<"https://", "arxiv.org", "/", "pdf", "/">>
                             \o arxivId \o <<".pdf">>,
         arxivUrl |-> IF arxivId = <<>> THEN <<>>
                      ELSE <<"https://", "arxiv.org", "/abs/">> \o arxivId]

\* src/api/arxiv.js: the entry loop of the endpoint
EndpointParse(xmlText) ==
    LET entries == MatchEntries(xmlText)
    IN  [i \in DOMAIN entries |-> EndpointRecord(entries[i])]

---------------------------------------------------------------------------
(* Results of calls that may throw *)

Returned(v) == [ok |-> TRUE, value |-> v, error |-> ""]
Thrown(message) == [ok |-> FALSE, value |-> <<>>, error |-> message]

\* the message of the TypeError of undefined.toLowerCase()
TitleTypeError == "Cannot read properties of undefined (reading 'toLowerCase')"

---------------------------------------------------------------------------
(* Merge and dedup *)

\* src/api/enhanced.js: paper.title.toLowerCase().replace(/\s+/g, '')
DedupKeyCaseSensitive(title) == RemoveSpaces(title)
DedupKey(title) == RemoveSpaces(ToLowerCase(title))

\* src/api/arxiv.js: paper.title.toLowerCase().replace(/[^a-z0-9]/g, '')
TitleKeyWhitespaceOnly(title) == RemoveSpaces(ToLowerCase(title))
TitleKey(title) == KeepAlnum(ToLowerCase(title))

\* papers.filter(paper => ...) with the Set seen of deduplicatePapers
RECURSIVE FilterUnseen(_, _)
FilterUnseen(papers, seen) ==
    IF papers = <<>> THEN <<>>
    ELSE LET key == DedupKey(Head(papers).title)
         IN  IF key \in seen THEN FilterUnseen(Tail(papers), seen)
             ELSE <<Head(papers)>> \o FilterUnseen(Tail(papers), seen \cup {key})

\* a filter that keeps the last record of each key instead of the first
RECURSIVE FilterKeepLast(_, _)
FilterKeepLast(papers, seen) ==
    IF papers = <<>> THEN <<>>
    ELSE LET n == Len(papers)
             key == DedupKey(papers[n].title)
         IN  IF key \in seen THEN FilterKeepLast(SubSeq(papers, 1, n - 1), seen)
             ELSE FilterKeepLast(SubSeq(papers, 1, n - 1), seen \cup {key})
                      \o <<papers[n]>>

\* a filter that drops the first record whose key was seen and keeps the
\* rest as it is
RECURSIVE FilterFirstRepeat(_, _)
FilterFirstRepeat(papers, seen) ==
    IF papers = <<>> THEN <<>>
    ELSE LET key == RemoveSpaces(ToLowerCase(Head(papers).title))
         IN  IF key \in seen THEN Tail(papers)
             ELSE <<Head(papers)>>
                      \o FilterFirstRepeat(Tail(papers), seen \cup {key})

deduplicatePapersOneAtATime(papers) ==
    IF \E i \in DOMAIN papers : ~IsString(papers[i].title)
    THEN Thrown(TitleTypeError)
    ELSE Returned(FilterFirstRepeat(papers, {}))

\* src/api/enhanced.js: deduplicatePapers; a record whose title is
\* undefined or null makes title.toLowerCase() throw a TypeError
deduplicatePapersKeepLast(papers) ==
    IF \E i \in DOMAIN papers : ~IsString(papers[i].title)
    THEN Thrown(TitleTypeError)
    ELSE Returned(FilterKeepLast(papers, {}))
deduplicatePapers(papers) ==
    IF \E i \in DOMAIN papers : ~IsString(papers[i].title)
    THEN Thrown(TitleTypeError)
    ELSE Returned(FilterUnseen(papers, {}))

\* papers.filter(paper => ...) with the Set seen of deduplicateByTitle
RECURSIVE FilterUnseenTitle(_, _)
FilterUnseenTitle(papers, seen) ==
    IF papers = <<>> THEN <<>>
    ELSE LET key == TitleKey(Head(papers).title)
         IN  IF key \in seen THEN FilterUnseenTitle(Tail(papers), seen)
             ELSE <<Head(papers)>>
                      \o FilterUnseenTitle(Tail(papers), seen \cup {key})

\* src/api/arxiv.js: deduplicateByTitle
deduplicateByTitle(papers) ==
    IF \E i \in DOMAIN papers : ~IsString(papers[i].title)
    THEN Thrown(TitleTypeError)
    ELSE Returned(FilterUnseenTitle(papers, {}))

---------------------------------------------------------------------------
(* The Semantic Scholar adapter *)

\* A date is its calendar year and its day number since 1970-01-01; the
\* date of a paper without publicationDate is NoDate.
NoDate == [year |-> 0, day |-> 0]

\* Date.now(): 2024-11-04
Today == [year |-> 2024, day |-> 20031]

\* Math.round(x / y) for x >= 0, y > 0: halves round up
RoundDiv(x, y) == (2 * x + y) \div (2 * y)

\* the velocity with Math.floor in the place of Math.round
calculateCitationVelocityFloor(paper) ==
    IF paper.publicationDate = NoDate \/ paper.citationCount = 0 THEN 0
    ELSE LET days == Today.day - paper.publicationDate.day
         IN  (30 * paper.citationCount) \div (IF days > 30 THEN days ELSE 30)

\* src/api/enhanced.js: calculateCitationVelocity; a month is 30 days, and
\* citationCount / Math.max(months, 1) is 30 * count / max(days, 30)
calculateCitationVelocity(paper) ==
    IF paper.publicationDate = NoDate \/ paper.citationCount = 0 THEN 0
    ELSE LET days == Today.day - paper.publicationDate.day
         IN  RoundDiv(30 * paper.citationCount, IF days > 30 THEN days ELSE 30)

\* src/api/enhanced.js: the record fetchSemanticScholarPapers maps one
\* paper object of the upstream data array to.  A number that the upstream
\* omits is 0 here (the code reads it through || 0, ! or >=, for which
\* undefined, NaN and 0 agree).
SemanticRecord(paper) ==
    [title |-> paper.title,
     abstract |-> OrElse(paper.abstract, NoAbstract),
     authors |-> IF paper.authors = Undefined THEN Unknown
                 ELSE OrElse(Join(Take(paper.authors, 3), CommaSpace), Unknown),
     year |-> IF paper.year # 0 THEN paper.year ELSE paper.publicationDate.year,
     url |-> paper.url,
     citations |-> paper.citationCount,
     venue |-> OrElse(paper.venue, <<"P","r","e","p","r","i","n","t">>),
     source |-> "semantic_scholar",
     paperId |-> paper.paperId,
     references |-> paper.references,
     citationVelocity |-> calculateCitationVelocity(paper)]

---------------------------------------------------------------------------
(* The scores of the personalized feed and of the trending list *)

\* v in a string concatenation: undefined reads "undefined"
ToStr(v) ==
    IF v = Undefined THEN <<"u","n","d","e","f","i","n","e","d">> ELSE v

\* text.includes(k)
Includes(text, k) ==
    \E i \in 1..(Len(text) - Len(k) + 1) : SubSeq(text, i, i + Len(k) - 1) = k

\* (paper.title + ' ' + paper.abstract).toLowerCase()
TextOf(paper) ==
    ToLowerCase(ToStr(paper.title) \o <<" ">> \o ToStr(paper.abstract))

\* interests.forEach(...): 10 for every interest the text includes
RECURSIVE MatchScore(_, _)
MatchScore(text, interests) ==
    IF interests = <<>> THEN 0
    ELSE (IF Includes(text, ToLowerCase(Head(interests))) THEN 10 ELSE 0)
             + MatchScore(text, Tail(interests))

\* the relevance score that counts an interest list once, however many of
\* its entries match
calculateRelevanceScoreAnyMatch(paper, interests) ==
    (IF MatchScore(TextOf(paper), interests) > 0 THEN 10 ELSE 0)
        + (IF paper.year >= 2023 THEN 5 ELSE 0)
        + (IF paper.citations > 100 THEN 5 ELSE 0)

\* the relevance score with the boost for papers after 2023 only
calculateRelevanceScoreAfter2023(paper, interests) ==
    MatchScore(TextOf(paper), interests)
        + (IF paper.year > 2023 THEN 5 ELSE 0)
        + (IF paper.citations > 100 THEN 5 ELSE 0)

\* src/api/enhanced.js: calculateRelevanceScore
calculateRelevanceScore(paper, interests) ==
    MatchScore(TextOf(paper), interests)
        + (IF paper.year >= 2023 THEN 5 ELSE 0)
        + (IF paper.citations > 100 THEN 5 ELSE 0)

\* interests.filter(...): the interests the text of the paper includes
RECURSIVE MatchedInterests(_, _)
MatchedInterests(text, interests) ==
    IF interests = <<>> THEN <<>>
    ELSE (IF Includes(text, ToLowerCase(Head(interests)))
          THEN <<Head(interests)>> ELSE <<>>)
             \o MatchedInterests(text, Tail(interests))

\* src/api/enhanced.js: generatePersonalizedReason
generatePersonalizedReason(paper, interests) ==
    LET matchedInterests == MatchedInterests(TextOf(paper), interests)
    IN  IF Len(matchedInterests) > 0
        THEN <<"Matches your interest in ">> \o Join(matchedInterests, CommaSpace)
        ELSE <<"Recommended based on your reading history">>

\* Math.round(x) of a non-negative x = n / RandomResolution: the nearest
\* integer, a half rounded up
MathRound(n) == (2 * n + RandomResolution) \div (2 * RandomResolution)

\* a score that takes the random factor up to the next integer
calculateTrendingScoreCeil(paper, random) ==
    (IF paper.year >= 2024 THEN 30 ELSE 0)
        + (IF paper.citationVelocity > 10 THEN 20 ELSE 0)
        + (random + RandomResolution - 1) \div RandomResolution

\* src/api/enhanced.js: calculateTrendingScore, where random is
\* Math.random() * 50 counted in steps of 1 / RandomResolution
calculateTrendingScore(paper, random) ==
    LET recent == IF paper.year >= 2024 THEN 30 ELSE 0
        velocity == IF paper.citationVelocity > 10 THEN 20 ELSE 0
        score == (recent + velocity) * RandomResolution + random
    IN MathRound(score)

\* the record r with the fields of extra attached: { ...paper, ... }
Extended(r, extra) ==
    [f \in DOMAIN r \cup DOMAIN extra |-> IF f \in DOMAIN extra THEN extra[f] ELSE r[f]]

\* a sort by descending score that puts a record before the earlier
\* records of the same score
RECURSIVE SortByScoreTiesReversed(_, _)
SortByScoreTiesReversed(papers, field) ==
    IF papers = <<>> THEN <<>>
    ELSE LET n == Len(papers)
             sorted == SortByScoreTiesReversed(SubSeq(papers, 1, n - 1), field)
             k == Cardinality({i \in DOMAIN sorted : sorted[i][field] > papers[n][field]})
         IN  SubSeq(sorted, 1, k) \o <<papers[n]>> \o SubSeq(sorted, k + 1, Len(sorted))

\* papers.sort((a, b) => b[field] - a[field]): Array.prototype.sort is
\* stable, so a record goes behind the earlier records whose score is not
\* less than its own
RECURSIVE SortByScore(_, _)
SortByScore(papers, field) ==
    IF papers = <<>> THEN <<>>
    ELSE LET n == Len(papers)
             sorted == SortByScore(SubSeq(papers, 1, n - 1), field)
             k == Cardinality({i \in DOMAIN sorted : sorted[i][field] >= papers[n][field]})
         IN  SubSeq(sorted, 1, k) \o <<papers[n]>> \o SubSeq(sorted, k + 1, Len(sorted))

---------------------------------------------------------------------------
(* What the upstream services can answer *)

\* every sequence over S of length at most n
SeqsUpTo(S, n) == UNION {[1..k -> S] : k \in 0..n}

\* the concatenation of a sequence of sequences
RECURSIVE Flatten(_)
Flatten(ss) == IF ss = <<>> THEN <<>> ELSE Head(ss) \o Flatten(Tail(ss))

\* entries of the arXiv feed: two versions of one paper whose titles differ
\* by case and spacing, another paper, and an entry without a title
FeedEntries ==
    { <<"<entry>", "<id>", "http://", "arxiv.org", "/abs/", "1234.5678", "</id>",
        "<title>", "F", "o", "o", " ", "B", "a", "r", "</title>",
        "<summary>", "x", "</summary>",
        "<author>", "<name>", "A", "</name>", "</author>",
        "<published>", "2024-01-15", "T", "10:00:00Z", "</published>",
        "<category term=\"cs.LG\"/>", "</entry>">>,
      <<"<entry>", "<id>", "http://", "arxiv.org", "/abs/", "1234.5678", "v", "2", "</id>",
        "<title>", "f", "o", "o", " ", "\n", " ", "b", "a", "r", "</title>",
        "</entry>">>,
      <<"<entry>", "<id>", "http://", "arxiv.org", "/abs/", "2401.00001", "</id>",
        "<title>", "B", "a", "z", "</title>", "</entry>">>,
      <<"<entry>", "<id>", "http://", "arxiv.org", "/abs/", "2401.00002", "</id>",
        "<summary>", "y", "</summary>", "</entry>">> }

\* a feed document: the feed's own header, then the entries
FeedOf(entries) ==
    <<"<feed>", "<title>", "Q", "</title>">> \o Flatten(entries) \o <<"</feed>">>

\* the body of a non-success answer
ErrorPage == <<"R", "a", "t", "e", " ", "e", "x", "c", "e", "e", "d", "e", "d">>

\* fetch(arxivUrl): rejected, answered with a non-success status, or
\* answered with a feed
ArxivAnswers(n) ==
    {[kind |-> "network", ok |-> FALSE, status |-> 0, text |-> <<>>],
     [kind |-> "response", ok |-> FALSE, status |-> 503, text |-> ErrorPage]}
    \cup {[kind |-> "response", ok |-> TRUE, status |-> 200, text |-> FeedOf(es)] :
             es \in SeqsUpTo(FeedEntries, n)}

ArxivUpstream == ArxivAnswers(MaxEntries)

\* paper objects of the citation-graph service: one with the title of the
\* first feed entry in another case, one more paper, one without a title
SemanticPapers ==
    { [title |-> <<"F", "O", "O", " ", "B", "A", "R">>, abstract |-> <<"x">>,
       authors |-> <<<<"A">>, <<"B">>>>, year |-> 2024,
       url |-> <<"https://", "s2", "/", "p1">>, citationCount |-> 60,
       venue |-> <<"N", "I", "P", "S">>,
       publicationDate |-> [year |-> 2024, day |-> 19851],
       paperId |-> <<"p1">>, references |-> 2],
      [title |-> <<"Q", "u", "x">>, abstract |-> Undefined,
       authors |-> Undefined, year |-> 0,
       url |-> <<"https://", "s2", "/", "p2">>, citationCount |-> 0,
       venue |-> Undefined, publicationDate |-> NoDate,
       paperId |-> <<"p2">>, references |-> 0],
      [title |-> Undefined, abstract |-> <<"z">>,
       authors |-> <<>>, year |-> 2022,
       url |-> <<"https://", "s2", "/", "p3">>, citationCount |-> 150,
       venue |-> <<>>, publicationDate |-> [year |-> 2022, day |-> 19000],
       paperId |-> <<"p3">>, references |-> 0] }

\* fetch(url) and response.json(): the fetch rejected, a body that is not
\* JSON, JSON without a data array, or a data array
SemanticAnswers(n) ==
    {[kind |-> "network", data |-> <<>>],
     [kind |-> "notjson", data |-> <<>>],
     [kind |-> "nodata", data |-> <<>>]}
    \cup {[kind |-> "data", data |-> ps] : ps \in SeqsUpTo(SemanticPapers, n)}

SemanticUpstream == SemanticAnswers(MaxEntries)

\* src/api/enhanced.js: what fetchArxivPapers resolves to; response.ok is
\* not read, and an exception of fetch or text() gives []
fetchArxivPapers(upstream) ==
    IF upstream.kind = "network" THEN <<>> ELSE parseArxivXML(upstream.text)

\* src/api/enhanced.js: what fetchSemanticScholarPapers resolves to; every
\* exception inside the try (fetch, json(), data.data.map) gives []
fetchSemanticScholarPapers(upstream) ==
    IF upstream.kind # "data" THEN <<>>
    ELSE [i \in DOMAIN upstream.data |-> SemanticRecord(upstream.data[i])]

\* Math.floor(Math.random() * 100), three times: samples of the draws
MetricDraws ==
    {[impactScore |-> 0, trendingScore |-> 99, qualityScore |-> 50],
     [impactScore |-> 99, trendingScore |-> 0, qualityScore |-> 1]}

\* a record of metrics that loses the source of the paper
WithMetricsLosingSource(r, m) ==
    [f \in (DOMAIN r \ {"source"}) \cup {"metrics"} |->
        IF f = "metrics" THEN m ELSE r[f]]

\* the record r with the field metrics attached: { ...paper, metrics }
WithMetrics(r, m) ==
    [f \in DOMAIN r \cup {"metrics"} |-> IF f = "metrics" THEN m ELSE r[f]]

\* src/api/enhanced.js: enhancePapersWithMetrics, for the draws given
enhancePapersWithMetrics(papers, draws) ==
    [i \in DOMAIN papers |-> WithMetrics(papers[i], draws[i])]

---------------------------------------------------------------------------
(* Requests, promises and responses *)

Handlers == {"simple", "enhanced", "ultimate", "endpoint", "test"}
Methods == {"GET", "POST", "OPTIONS"}

\* the action parameter: absent, one no handler knows, or a known one
SearchActions == {"absent", "unknown", "search"}

\* the actions of the enhanced handler that answer with a scored list
FeedActions == {"personalized", "trending"}

\* the actions of the enhanced handler that answer from placeholders
StubActions == {"metrics", "lineage", "summary"}

\* interests.split(',').filter(i => i): the interest lists of the requests
InterestLists ==
    {<<>>,
     <<<<"f","o","o">>>>,
     <<<<"f","o","o">>, <<"q","u","x">>>>,
     <<<<"q","u","x">>, <<"q","u","x">>>>}

\* the sources parameter of searchPapers
SourceSelections == {"all", "arxiv", "semantic", "arxiv,semantic", "pubmed"}

\* the query parameter: absent (the default '') or given
Queries == {"", "transformers"}

NoRequest ==
    [handler |-> "none", method |-> "none", action |-> "none",
     sources |-> "none", query |-> "", interests |-> <<>>]

\* sources === 'all' || sources.includes(name)
Selected(sources, name) ==
    \/ sources = "all"
    \/ name = "arxiv" /\ sources \in {"arxiv", "arxiv,semantic"}
    \/ name = "semantic" /\ sources \in {"semantic", "arxiv,semantic"}

\* A promise: its state, the value it resolved to, the upstream answer
\* that settled it (NoUpstream when no upstream call was made), and its
\* place among the upstream answers of the request in the order of their
\* arrival (0 when it did not wait for one).
NoUpstream == [kind |-> "none"]
NotStarted == [state |-> "none", value |-> <<>>, upstream |-> NoUpstream, at |-> 0]
Pending == [state |-> "pending", value |-> <<>>, upstream |-> NoUpstream, at |-> 0]
Fulfilled(v, u) == [state |-> "fulfilled", value |-> v, upstream |-> u, at |-> 0]

\* the promise p, settled after the answers that other has waited for
After(p, other) == [p EXCEPT !.at = other.at + 1]

Settled(p) == p.state \in {"fulfilled", "rejected"}

\* res.status(code).end() and res.status(code).json(body)
Ended(code) == [status |-> code, kind |-> "end", json |-> [ended |-> TRUE]]
Json(code, body) == [status |-> code, kind |-> "json", json |-> body]

\* { success: false, error: error.message }
ErrorEnvelope(message) == [success |-> FALSE, error |-> message]

FetchFailed == "fetch failed"

Idle ==
    /\ pc = "idle"
    /\ req = NoRequest
    /\ arxivP = NotStarted
    /\ semanticP = NotStarted
    /\ responses = <<>>
    /\ caught = ""

NoPure ==
    /\ arg = <<>>
    /\ ret = Returned(<<>>)
    /\ op = "none"

Init == Idle /\ NoPure

Respond(r) ==
    /\ responses' = Append(responses, r)
    /\ pc' = "done"

\* a catch that notes the exception and sends nothing
CatchSilently(message, r) ==
    /\ caught' = message
    /\ responses' = responses
    /\ pc' = "done"

\* the catch of a handler: the response it sends for the exception
Catch(message, r) ==
    /\ caught' = message
    /\ Respond(r)

\* a response sent outside the catch
Send(r) ==
    /\ caught' = caught
    /\ Respond(r)

\* a request reaches one of the handlers
Receive ==
    /\ pc = "idle"
    /\ \E h \in Handlers, m \in Methods,
          a \in SearchActions \cup FeedActions \cup StubActions,
          srcs \in SourceSelections, q \in Queries, is \in InterestLists :
          /\ h # "enhanced" => srcs = "all" /\ a \in SearchActions
          /\ h \in {"simple", "endpoint", "test"} => a = "absent"
          /\ a \in FeedActions \cup StubActions => srcs = "all" /\ q = ""
          /\ a # "personalized" => is = <<>>
          /\ req' = [handler |-> h, method |-> m, action |-> a,
                     sources |-> srcs, query |-> q, interests |-> is]
    /\ pc' = "received"
    /\ UNCHANGED <<arxivP, semanticP, responses, caught, arg, ret, op>>

\* every handler but the test endpoint: if (req.method === 'OPTIONS')
\* return res.status(200).end()
Preflight ==
    /\ pc = "received"
    /\ req.handler # "test"
    /\ req.method = "OPTIONS"
    /\ Send(Ended(200))
    /\ UNCHANGED <<req, arxivP, semanticP, arg, ret, op>>

\* src/api/test.js: handler
TestHandler ==
    /\ pc = "received"
    /\ req.handler = "test"
    /\ Send(Json(200, [success |-> TRUE, message |-> "API is working!",
                          method |-> req.method]))
    /\ UNCHANGED <<req, arxivP, semanticP, arg, ret, op>>

---------------------------------------------------------------------------
(* src/api/enhanced.js: handler and searchPapers *)

\* searchPapers up to await Promise.allSettled(promises): the selected
\* adapters are called; fetchSemanticScholarPapers returns [] at once for
\* an empty query
SearchStart ==
    /\ pc = "received"
    /\ req.handler = "enhanced"
    /\ req.method # "OPTIONS"
    /\ req.action \in SearchActions
    /\ arxivP' = IF Selected(req.sources, "arxiv") THEN Pending ELSE NotStarted
    /\ semanticP' = IF ~Selected(req.sources, "semantic") THEN NotStarted
                    ELSE IF req.query = "" THEN Fulfilled(<<>>, NoUpstream)
                    ELSE Pending
    /\ pc' = "awaiting"
    /\ UNCHANGED <<req, responses, caught, arg, ret, op>>

\* the arXiv adapter settles, on one of the answers given
ArxivSettleFrom(answers) ==
    /\ pc = "awaiting"
    /\ req.handler = "enhanced"
    /\ arxivP = Pending
    /\ \E upstream \in answers :
          arxivP' = After(Fulfilled(fetchArxivPapers(upstream), upstream), semanticP)
    /\ UNCHANGED <<pc, req, semanticP, responses, caught, arg, ret, op>>

ArxivSettle == ArxivSettleFrom(ArxivUpstream)

\* the Semantic Scholar adapter settles, on one of the answers given
SemanticSettleFrom(answers) ==
    /\ pc = "awaiting"
    /\ req.handler = "enhanced"
    /\ semanticP = Pending
    /\ \E upstream \in answers :
          semanticP' = After(Fulfilled(fetchSemanticScholarPapers(upstream), upstream),
                             arxivP)
    /\ UNCHANGED <<pc, req, arxivP, responses, caught, arg, ret, op>>

SemanticSettle == SemanticSettleFrom(SemanticUpstream)

\* the values of the fulfilled promises in the order the promises settled
CollectedAsSettled(a, s) ==
    IF s.at # 0 /\ s.at < a.at
    THEN (IF s.state = "fulfilled" THEN s.value ELSE <<>>)
             \o (IF a.state = "fulfilled" THEN a.value ELSE <<>>)
    ELSE (IF a.state = "fulfilled" THEN a.value ELSE <<>>)
             \o (IF s.state = "fulfilled" THEN s.value ELSE <<>>)

\* results.forEach(...): the values of the fulfilled promises, in the
\* order the promises were pushed
Collected(a, s) ==
    (IF a.state = "fulfilled" THEN a.value ELSE <<>>)
        \o (IF s.state = "fulfilled" THEN s.value ELSE <<>>)

\* searchPapers after the await: merge, dedup, enhance, respond; an
\* exception reaches the catch of handler
SearchFinish ==
    /\ pc = "awaiting"
    /\ req.handler = "enhanced"
    /\ arxivP.state # "pending"
    /\ semanticP.state # "pending"
    /\ LET unique == deduplicatePapers(Collected(arxivP, semanticP))
       IN  IF ~unique.ok
           THEN Catch(unique.error, Json(500, ErrorEnvelope(unique.error)))
           ELSE \E draws \in [DOMAIN unique.value -> MetricDraws] :
                   LET enhanced == enhancePapersWithMetrics(unique.value, draws)
                   IN  Send(Json(200, [success |-> TRUE,
                                          papers |-> enhanced,
                                          total |-> Len(enhanced),
                                          query |-> req.query,
                                          category |-> "cs.LG"]))
    /\ UNCHANGED <<req, arxivP, semanticP, arg, ret, op>>

---------------------------------------------------------------------------
(* src/api/enhanced.js: getPersonalizedFeed and getTrendingPapers *)

\* getPersonalizedFeed: one call of fetchSemanticScholarPapers per interest,
\* the results merged in the order of the interests, scored, sorted, and
\* the first 20 sent
PersonalizedFeedFrom(upstreams) ==
    /\ pc = "received"
    /\ req.handler = "enhanced"
    /\ req.method # "OPTIONS"
    /\ req.action = "personalized"
    /\ \E answers \in [DOMAIN req.interests -> upstreams] :
          LET papers ==
                  Flatten([i \in DOMAIN req.interests |->
                              fetchSemanticScholarPapers(answers[i])])
              scoredPapers ==
                  [i \in DOMAIN papers |->
                      Extended(papers[i],
                          [relevanceScore |->
                               calculateRelevanceScore(papers[i], req.interests),
                           personalizedReason |->
                               generatePersonalizedReason(papers[i], req.interests)])]
          IN  /\ semanticP' = Fulfilled(scoredPapers,
                                        [kind |-> "personalized", answers |-> answers])
              /\ Send(Json(200, [success |-> TRUE,
                                 papers |-> Take(SortByScore(scoredPapers, "relevanceScore"),
                                                 FeedLimit),
                                 interests |-> req.interests]))
    /\ UNCHANGED <<req, arxivP, arg, ret, op>>

PersonalizedFeed == PersonalizedFeedFrom(SemanticUpstream)

\* Math.round(... + Math.random() * 50) and generateTrendingReason: samples
\* of the draws
TrendingDraws ==
    [random : {0, 30 * RandomResolution + 1, RandomRange * RandomResolution - 1},
     reason : {"Rapid citation growth", "Hot research topic"}]

\* getTrendingPapers: one call of fetchSemanticScholarPapers, the records
\* scored, sorted, and the first 10 sent
TrendingPapersFrom(answers) ==
    /\ pc = "received"
    /\ req.handler = "enhanced"
    /\ req.method # "OPTIONS"
    /\ req.action = "trending"
    /\ \E upstream \in answers :
          LET papers == fetchSemanticScholarPapers(upstream)
          IN  \E draws \in [DOMAIN papers -> TrendingDraws] :
                 LET trendingPapers ==
                         [i \in DOMAIN papers |->
                             Extended(papers[i],
                                 [trendingScore |->
                                      calculateTrendingScore(papers[i], draws[i].random),
                                  trendingReason |-> draws[i].reason])]
                 IN  /\ semanticP' = Fulfilled(trendingPapers,
                                               [kind |-> "trending", answer |-> upstream])
                     /\ Send(Json(200, [success |-> TRUE,
                                        papers |-> Take(SortByScore(trendingPapers,
                                                                    "trendingScore"),
                                                        TrendingLimit),
                                        timeframe |-> "week",
                                        category |-> "all"]))
    /\ UNCHANGED <<req, arxivP, arg, ret, op>>

TrendingPapers == TrendingPapersFrom(SemanticUpstream)

\* Math.floor(Math.random() * n) and the like in getImpactMetrics: samples
\* of the draws
ImpactDraws ==
    {[citations |-> 0, citationVelocity |-> 0, futureImpact |-> "Medium"],
     [citations |-> 999, citationVelocity |-> 49, futureImpact |-> "High"]}

\* getImpactMetrics: placeholder metrics, no upstream call; paperId and
\* title are not given
ImpactMetrics ==
    /\ pc = "received"
    /\ req.handler = "enhanced"
    /\ req.method # "OPTIONS"
    /\ req.action = "metrics"
    /\ \E metrics \in ImpactDraws :
          Send(Json(200, [success |-> TRUE, paperId |-> Undefined,
                          title |-> Undefined, metrics |-> metrics]))
    /\ UNCHANGED <<req, arxivP, semanticP, arg, ret, op>>

\* getResearchLineage: a fixed lineage of four kinds
ResearchLineage ==
    /\ pc = "received"
    /\ req.handler = "enhanced"
    /\ req.method # "OPTIONS"
    /\ req.action = "lineage"
    /\ Send(Json(200, [success |-> TRUE, paperId |-> Undefined,
                       title |-> Undefined,
                       lineage |-> <<"builds_on", "influenced_by", "led_to",
                                     "competing_approaches">>]))
    /\ UNCHANGED <<req, arxivP, semanticP, arg, ret, op>>

\* generateAISummary: one of the two templates, drawn at random
AISummary ==
    /\ pc = "received"
    /\ req.handler = "enhanced"
    /\ req.method # "OPTIONS"
    /\ req.action = "summary"
    /\ \E template \in 1..2 :
          Send(Json(200, [success |-> TRUE, title |-> Undefined,
                          summary |-> [template |-> template]]))
    /\ UNCHANGED <<req, arxivP, semanticP, arg, ret, op>>

---------------------------------------------------------------------------
(* src/arxiv.js and src/api/arxiv.js: the single-source handlers *)

\* the endpoint: if (req.method !== 'GET') return res.status(405).json(...)
EndpointMethodNotAllowed ==
    /\ pc = "received"
    /\ req.handler = "endpoint"
    /\ req.method \notin {"OPTIONS", "GET"}
    /\ Send(Json(405, ErrorEnvelope("Method not allowed")))
    /\ UNCHANGED <<req, arxivP, semanticP, arg, ret, op>>

\* await fetch(arxivUrl)
SingleStart ==
    /\ pc = "received"
    /\ \/ req.handler = "simple" /\ req.method # "OPTIONS"
       \/ req.handler = "endpoint" /\ req.method = "GET"
    /\ arxivP' = Pending
    /\ pc' = "awaiting"
    /\ UNCHANGED <<req, semanticP, responses, caught, arg, ret, op>>

\* src/arxiv.js: handler, from the answer of fetch to the response
SimpleFinish ==
    /\ pc = "awaiting"
    /\ req.handler = "simple"
    /\ \E upstream \in ArxivUpstream :
          /\ arxivP' = Fulfilled(upstream.text, upstream)
          /\ IF upstream.kind = "network"
             THEN Catch(FetchFailed, Json(500, ErrorEnvelope(FetchFailed)))
             ELSE IF ~upstream.ok
             THEN Catch("ArXiv API error: 503",
                        Json(500, ErrorEnvelope("ArXiv API error: 503")))
             ELSE LET papers == SimpleParse(upstream.text)
                  IN  Send(Json(200, [success |-> TRUE,
                                         papers |-> papers,
                                         query |-> req.query,
                                         category |-> "cs.LG",
                                         total |-> Len(papers)]))
    /\ UNCHANGED <<req, semanticP, arg, ret, op>>

\* src/api/arxiv.js: the endpoint handler, from the answer of fetch to the
\* response
EndpointFinish ==
    /\ pc = "awaiting"
    /\ req.handler = "endpoint"
    /\ \E upstream \in ArxivUpstream :
          /\ arxivP' = Fulfilled(upstream.text, upstream)
          /\ IF upstream.kind = "network"
             THEN Catch(FetchFailed,
                        Json(500, [success |-> FALSE, error |-> FetchFailed,
                                   details |-> "Failed to fetch or parse ArXiv data"]))
             ELSE IF ~upstream.ok
             THEN Catch("ArXiv API returned 503",
                        Json(500, [success |-> FALSE,
                                   error |-> "ArXiv API returned 503",
                                   details |-> "Failed to fetch or parse ArXiv data"]))
             ELSE LET papers == EndpointParse(upstream.text)
                  IN  Send(Json(200, [success |-> TRUE,
                                         query |-> req.query,
                                         start |-> 0,
                                         count |-> Len(papers),
                                         papers |-> papers]))
    /\ UNCHANGED <<req, semanticP, arg, ret, op>>

---------------------------------------------------------------------------
(* src/api/arxiv.js: the "ultimate" handler *)

\* default: return res.status(400).json({ error: 'Unknown action' })
UltimateUnknown ==
    /\ pc = "received"
    /\ req.handler = "ultimate"
    /\ req.method # "OPTIONS"
    /\ req.action # "search"
    /\ Send(Json(400, [error |-> "Unknown action"]))
    /\ UNCHANGED <<req, arxivP, semanticP, arg, ret, op>>

\* case 'search': return await intelligentSearch(req, res), and the catch
\* of handler.  The collaborators of intelligentSearch (the completion
\* service, searchArxiv, ...) either make it throw or let it answer.
UltimateSearch ==
    /\ pc = "received"
    /\ req.handler = "ultimate"
    /\ req.method # "OPTIONS"
    /\ req.action = "search"
    /\ \/ Catch("searchArxiv is not defined",
                Json(500, [error |-> "searchArxiv is not defined"]))
       \/ Send(Json(200, [success |-> TRUE, papers |-> <<>>]))
    /\ UNCHANGED <<req, arxivP, semanticP, arg, ret, op>>

Next ==
    \/ Receive
    \/ Preflight
    \/ TestHandler
    \/ SearchStart
    \/ ArxivSettle
    \/ SemanticSettle
    \/ SearchFinish
    \/ PersonalizedFeed
    \/ TrendingPapers
    \/ ImpactMetrics
    \/ ResearchLineage
    \/ AISummary
    \/ EndpointMethodNotAllowed
    \/ SingleStart
    \/ SimpleFinish
    \/ EndpointFinish
    \/ UltimateUnknown
    \/ UltimateSearch

Spec == Init /\ [][Next]_vars

\* One answer of every kind for the adapters of the enhanced handler: the
\* fetch rejected, an error page, a feed without entries, a feed of one
\* entry; the fetch rejected, a body that is not JSON, JSON without a data
\* array, an empty data array, one paper (with or without a title).
ArxivOutcomes == ArxivAnswers(1)
SemanticOutcomes == SemanticAnswers(1)

\* the handlers, the adapters of the enhanced handler settling on one of
\* these answers
FairNext ==
    \/ Receive
    \/ Preflight
    \/ TestHandler
    \/ SearchStart
    \/ ArxivSettleFrom(ArxivOutcomes)
    \/ SemanticSettleFrom(SemanticOutcomes)
    \/ SearchFinish
    \/ PersonalizedFeedFrom(SemanticOutcomes)
    \/ TrendingPapersFrom(SemanticOutcomes)
    \/ ImpactMetrics
    \/ ResearchLineage
    \/ AISummary
    \/ EndpointMethodNotAllowed
    \/ SingleStart
    \/ SimpleFinish
    \/ EndpointFinish
    \/ UltimateUnknown
    \/ UltimateSearch

\* The event loop runs every continuation that is ready, and every call of
\* an upstream settles (an answer, a failure or a time-out): no step that
\* can be taken is put off for ever.
FairSpec == Init /\ [][FairNext]_vars /\ WF_vars(FairNext)

---------------------------------------------------------------------------
(* The dedup functions on their own *)

\* titles that differ by case, by white space, by punctuation, or for
\* good, and a missing title
DedupTitles ==
    {<<"A", "b">>, <<"a", " ", "b">>, <<"a", "-", "b">>, <<"a", "c">>, Undefined}

DedupRecords == [title : DedupTitles, source : {"arxiv", "semantic_scholar"}]

InitDedup ==
    /\ Idle
    /\ arg \in SeqsUpTo(DedupRecords, MaxPapers)
    /\ ret = Returned(<<>>)
    /\ op = "none"

\* the call of f on arg
Apply(name, result) ==
    /\ op = "none"
    /\ ret' = result
    /\ op' = name
    /\ UNCHANGED <<pc, req, arxivP, semanticP, responses, caught, arg>>

ApplyDeduplicatePapers == Apply("deduplicatePapers", deduplicatePapers(arg))

ApplyDeduplicateByTitle == Apply("deduplicateByTitle", deduplicateByTitle(arg))

\* deduplicatePapers(deduplicatePapers(arg)), next to the list it was
\* called on
ApplyDeduplicatePapersAgain ==
    /\ op = "deduplicatePapers"
    /\ ret.ok
    /\ LET again == deduplicatePapers(ret.value)
       IN ret' = [again EXCEPT !.value = [once |-> ret.value, twice |-> @]]
    /\ op' = "deduplicatePapersTwice"
    /\ UNCHANGED <<pc, req, arxivP, semanticP, responses, caught, arg>>

NextDedup ==
    ApplyDeduplicatePapers \/ ApplyDeduplicateByTitle \/ ApplyDeduplicatePapersAgain

SpecDedup == InitDedup /\ [][NextDedup]_vars

---------------------------------------------------------------------------
(* The entry parsers on their own *)

DocTokens == {"<entry>", "</entry>", "<title>", "</title>", "a", " "}

InitParse ==
    /\ Idle
    /\ arg \in SeqsUpTo(DocTokens, MaxDocLen)
    /\ ret = Returned(<<>>)
    /\ op = "none"

ApplySimpleParse == Apply("SimpleParse", Returned(SimpleParse(arg)))

ApplyEnhancedParse == Apply("parseArxivXML", Returned(parseArxivXML(arg)))

ApplyEndpointParse == Apply("EndpointParse", Returned(EndpointParse(arg)))

NextParse == ApplySimpleParse \/ ApplyEnhancedParse \/ ApplyEndpointParse

SpecParse == InitParse /\ [][NextParse]_vars

---------------------------------------------------------------------------
(* Abstract truncation on its own *)

\* a summary of n characters: letters, dots, or both in turn
Summary(n, fill) ==
    [i \in 1..n |-> CASE fill = "letters" -> "a"
                      [] fill = "dots" -> "."
                      [] fill = "mixed" -> IF i % 2 = 0 THEN "." ELSE "a"]

InitTruncate ==
    /\ Idle
    /\ \E n \in 0..(AbstractLimit + MaxOverflow),
          fill \in {"letters", "dots", "mixed"} : arg = Summary(n, fill)
    /\ ret = Returned(<<>>)
    /\ op = "none"

ApplyTruncate == Apply("Truncate", Returned(Truncate(arg)))

\* the truncation applied to an abstract that was truncated already
ApplyTruncateAgain ==
    /\ op = "Truncate"
    /\ ret' = Returned(Truncate(ret.value))
    /\ op' = "TruncateTwice"
    /\ UNCHANGED <<pc, req, arxivP, semanticP, responses, caught, arg>>

NextTruncate == ApplyTruncate \/ ApplyTruncateAgain

SpecTruncate == InitTruncate /\ [][NextTruncate]_vars

---------------------------------------------------------------------------
(* calculateCitationVelocity on its own *)

\* the day number of the first of January of year y
YearStart(y) ==
    365 * (y - 1970) + (y - 1969) \div 4 - (y - 1901) \div 100 + (y - 1601) \div 400

\* new Date(d): the date of a day number
DateOfDay(d) ==
    [year |-> CHOOSE y \in 1970..2100 : YearStart(y) <= d /\ d < YearStart(y + 1),
     day |-> d]

\* a paper object of the upstream with the two fields the function reads: a
\* citationCount of 0 stands for a missing one, NoDate for a missing date
InitVelocity ==
    /\ Idle
    /\ \E count \in 0..MaxCitations, age \in (0 - MaxAgeDays)..MaxAgeDays,
          dated \in BOOLEAN :
          arg = [citationCount |-> count,
                 publicationDate |-> IF dated THEN DateOfDay(Today.day - age)
                                     ELSE NoDate]
    /\ ret = Returned(0)
    /\ op = "none"

ApplyCitationVelocity ==
    Apply("calculateCitationVelocity", Returned(calculateCitationVelocity(arg)))

NextVelocity == ApplyCitationVelocity

SpecVelocity == InitVelocity /\ [][NextVelocity]_vars

---------------------------------------------------------------------------
(* calculateRelevanceScore on its own *)

\* interest keywords: one in the title, one in the abstract in another
\* case, one that only the joined text holds, one that matches nothing
Keywords ==
    {<<"f","o","o">>, <<"B","A","Z">>, <<"r"," ","a">>, <<"z","z">>}

\* records as the adapters produce them; a year of 0 stands for the NaN of
\* a paper without year and date
ScoredRecords ==
    [title : {<<"F","o","o"," ","B","a","r">>, <<"G","A","N">>, Undefined},
     abstract : {<<"a"," ","b","a","z">>, NoAbstract},
     year : {0, 2022, 2023},
     citations : {100, 101}]

InitRelevance ==
    /\ Idle
    /\ \E paper \in ScoredRecords, interests \in SeqsUpTo(Keywords, MaxInterests) :
          arg = [paper |-> paper, interests |-> interests]
    /\ ret = Returned(0)
    /\ op = "none"

ApplyRelevanceScore ==
    Apply("calculateRelevanceScore",
          Returned(calculateRelevanceScore(arg.paper, arg.interests)))

\* the score of the same record for the list with one more keyword
ApplyRelevanceScoreAppended ==
    /\ op = "calculateRelevanceScore"
    /\ \E k \in Keywords :
          /\ arg' = [arg EXCEPT !.interests = Append(arg.interests, k)]
          /\ ret' = Returned(calculateRelevanceScore(arg.paper, arg'.interests))
    /\ op' = "calculateRelevanceScoreAppended"
    /\ UNCHANGED <<pc, req, arxivP, semanticP, responses, caught>>

NextRelevance == ApplyRelevanceScore \/ ApplyRelevanceScoreAppended

SpecRelevance == InitRelevance /\ [][NextRelevance]_vars

---------------------------------------------------------------------------
(* The derivations of the arXiv id on their own *)

\* the tokens of an id after its host
IdTokens == {"/", "/abs/", "pdf", "1234.5678", "v", "2"}

\* the text of the id element: with or without scheme and host
InitArxivId ==
    /\ Idle
    /\ \E host \in {<<>>, <<"http://", "arxiv.org">>},
          rest \in SeqsUpTo(IdTokens, MaxIdLen) : arg = host \o rest
    /\ ret = Returned(<<>>)
    /\ op = "none"

ApplySimpleArxivId == Apply("SimpleArxivId", Returned(SimpleArxivId(arg)))

ApplyArxivIdOf == Apply("ArxivIdOf", Returned(ArxivIdOf(arg)))

NextArxivId == ApplySimpleArxivId \/ ApplyArxivIdOf

SpecArxivId == InitArxivId /\ [][NextArxivId]_vars

---------------------------------------------------------------------------
(* The records of one entry on their own *)

AuthorNames == {"A", "B"}

\* <author><name>n</name></author>
AuthorElement(n) == <<"<author>", "<name>", n, "</name>", "</author>">>

\* an entry fragment: a title, author elements, and category elements mixed
\* with the primary-category element of the arXiv name space
InitRecord ==
    /\ Idle
    /\ \E names \in SeqsUpTo(AuthorNames, MaxAuthors),
          terms \in SeqsUpTo(CategoryTags \cup OtherTermTags, MaxTerms) :
          arg = <<"<title>", "T", "</title>">>
                    \o Flatten([i \in DOMAIN names |-> AuthorElement(names[i])])
                    \o terms
    /\ ret = Returned(<<>>)
    /\ op = "none"

ApplySimpleRecord == Apply("SimpleRecord", Returned(SimpleRecord(arg)))

ApplyEnhancedRecord == Apply("EnhancedRecord", Returned(EnhancedRecord(arg)))

ApplyEndpointRecord == Apply("EndpointRecord", Returned(EndpointRecord(arg)))

NextRecord == ApplySimpleRecord \/ ApplyEnhancedRecord \/ ApplyEndpointRecord

SpecRecord == InitRecord /\ [][NextRecord]_vars

---------------------------------------------------------------------------
(* Numbers: IEEE 754 binary64, as the arithmetic of the breakthrough score *)
(* computes them. Only non-negative normal numbers occur. A number is Zero *)
(* or a significand of Precision bits, least significant bit first and the *)
(* highest bit set, with a binary exponent: mant * 2^exp.                  *)

Precision == 53

Zero == [mant |-> <<>>, exp |-> 0]

BitsOf(n, width) == [i \in 1..width |-> (n \div 2 ^ (i - 1)) % 2]

\* the number whose significand is hi * 2^27 + lo
Double(hi, lo, e) == [mant |-> BitsOf(lo, 27) \o BitsOf(hi, 26), exp |-> e]

Half == Double(33554432, 0, -53)
One == Double(33554432, 0, -52)

Zeros(n) == [i \in 1..n |-> 0]

\* a + b + carry of two bit strings of one length, halving the strings
RECURSIVE AddCarry(_, _, _)
AddCarry(a, b, carry) ==
    IF Len(a) = 0 THEN [sum |-> <<>>, carry |-> carry]
    ELSE IF Len(a) = 1
    THEN [sum |-> <<(a[1] + b[1] + carry) % 2>>,
          carry |-> (a[1] + b[1] + carry) \div 2]
    ELSE LET h == Len(a) \div 2
             low == AddCarry(SubSeq(a, 1, h), SubSeq(b, 1, h), carry)
             high == AddCarry(SubSeq(a, h + 1, Len(a)),
                              SubSeq(b, h + 1, Len(a)), low.carry)
         IN [sum |-> low.sum \o high.sum, carry |-> high.carry]

AddBits(a, b) ==
    LET n == IF Len(a) > Len(b) THEN Len(a) ELSE Len(b)
        r == AddCarry(a \o Zeros(n - Len(a)), b \o Zeros(n - Len(b)), 0)
    IN IF r.carry = 1 THEN r.sum \o <<1>> ELSE r.sum

\* a * b, halving b; <<>> is 0
RECURSIVE MulBits(_, _)
MulBits(a, b) ==
    IF \A i \in 1..Len(b) : b[i] = 0 THEN <<>>
    ELSE IF Len(b) = 1 THEN a
    ELSE LET h == Len(b) \div 2
             low == MulBits(a, SubSeq(b, 1, h))
             high == MulBits(a, SubSeq(b, h + 1, Len(b)))
         IN AddBits(low, IF high = <<>> THEN high ELSE Zeros(h) \o high)

\* the exact value bits * 2^e rounded to Precision bits, ties to even
RoundToNearestEven(bits, e) ==
    LET k == Len(bits) - Precision
        kept == SubSeq(bits, k + 1, Len(bits))
        half == k > 0 /\ bits[k] = 1
        sticky == \E i \in 1..(k - 1) : bits[i] = 1
        up == half /\ (sticky \/ kept[1] = 1)
        r == IF up THEN AddBits(kept, <<1>>) ELSE kept
    IN IF Len(r) > Precision
       THEN [mant |-> Tail(r), exp |-> e + k + 1]
       ELSE [mant |-> r, exp |-> e + k]

\* x + y
Plus(x, y) ==
    IF x = Zero THEN y
    ELSE IF y = Zero THEN x
    ELSE LET e == IF x.exp < y.exp THEN x.exp ELSE y.exp
             shifted(z) == Zeros(z.exp - e) \o z.mant
         IN RoundToNearestEven(AddBits(shifted(x), shifted(y)), e)

\* x * y
Times(x, y) ==
    IF x = Zero \/ y = Zero THEN Zero
    ELSE RoundToNearestEven(MulBits(x.mant, y.mant), x.exp + y.exp)

\* x > y
Greater(x, y) ==
    /\ x # Zero
    /\ \/ y = Zero
       \/ x.exp > y.exp
       \/ /\ x.exp = y.exp
          /\ \E i \in 1..Precision :
                /\ x.mant[i] = 1
                /\ y.mant[i] = 0
                /\ \A j \in (i + 1)..Precision : x.mant[j] = y.mant[j]

\* the literals of the score: each is the binary64 number nearest to the
\* decimal written in the source
Weights ==
    <<[key |-> "noveltyScore", weight |-> Double(40265318, 53687091, -54)],
      [key |-> "performanceJump", weight |-> Double(33554432, 0, -54)],
      [key |-> "citationVelocity", weight |-> Double(40265318, 53687091, -55)],
      [key |-> "industryAdoption", weight |-> Double(40265318, 53687091, -55)],
      [key |-> "socialBuzz", weight |-> Double(53687091, 26843546, -56)],
      [key |-> "expertOpinions", weight |-> Double(53687091, 26843546, -57)]>>

BreakthroughThreshold == Double(46976204, 107374182, -53)

RECURSIVE ReduceWeights(_, _, _)
ReduceWeights(indicators, i, score) ==
    IF i > Len(Weights) THEN score
    ELSE ReduceWeights(indicators, i + 1,
                       Plus(score, Times(indicators[Weights[i].key],
                                         Weights[i].weight)))

calculateBreakthroughScore(indicators) == ReduceWeights(indicators, 1, Zero)

\* breakthroughs.sort((a, b) => b.score - a.score): stable, highest first
RECURSIVE SortBreakthroughs(_)
SortBreakthroughs(bs) ==
    IF bs = <<>> THEN <<>>
    ELSE LET sorted == SortBreakthroughs(SubSeq(bs, 1, Len(bs) - 1))
             b == bs[Len(bs)]
             k == Cardinality({i \in 1..Len(sorted) :
                                 ~Greater(b.score, sorted[i].score)})
         IN SubSeq(sorted, 1, k) \o <<b>> \o SubSeq(sorted, k + 1, Len(sorted))

\* The recent papers and their six signals come from collaborators the
\* repository does not define (getRecentPapers, calculateNovelty, ...,
\* explainBreakthrough): they are inputs. body is the request's body,
\* analysed the recent papers with what the collaborators return for each.
detectBreakthroughs(body, analysed) ==
    LET timeframe == OrElse(body.timeframe, <<"month">>)
        scored == [i \in 1..Len(analysed) |->
                     [paper |-> analysed[i].paper,
                      score |-> calculateBreakthroughScore(analysed[i].indicators),
                      indicators |-> analysed[i].indicators,
                      explanation |-> analysed[i].explanation]]
        IsBreakthrough(b) == Greater(b.score, BreakthroughThreshold)
    IN [success |-> TRUE,
        breakthroughs |-> SortBreakthroughs(SelectSeq(scored, IsBreakthrough)),
        timeframe |-> timeframe,
        totalAnalyzed |-> Len(analysed)]

---------------------------------------------------------------------------
(* The breakthrough score and the breakthrough detection on their own *)

IndicatorKeys == {Weights[i].key : i \in 1..Len(Weights)}

\* the six signals of a paper, given in the order of the weights
Indicators(values) ==
    [k \in IndicatorKeys |->
        values[CHOOSE i \in 1..Len(Weights) : Weights[i].key = k]]

\* signal values at, below and above the threshold of the detection
IndicatorPool ==
    {Indicators(<<Zero, Zero, Zero, Zero, Zero, Zero>>),
     Indicators(<<One, One, One, Zero, Zero, Zero>>),
     Indicators(<<One, Zero, One, One, One, Zero>>),
     Indicators(<<Half, One, One, One, Zero, Zero>>),
     Indicators(<<One, One, One, One, One, One>>)}

\* every combination of absent and full signals
IndicatorGrid == {Indicators(g) : g \in [1..Len(Weights) -> {Zero, One}]}

AnalysedOf(indicators) ==
    [i \in 1..Len(indicators) |->
        [paper |-> i, indicators |-> indicators[i], explanation |-> "explained"]]

InitBreakthrough ==
    /\ Idle
    /\ \E timeframe \in {Undefined, <<"week">>},
          indicators \in SeqsUpTo(IndicatorPool, MaxAnalysed)
                           \cup {<<g>> : g \in IndicatorGrid} :
          arg = [body |-> [timeframe |-> timeframe],
                 analysed |-> AnalysedOf(indicators)]
    /\ ret = Returned(<<>>)
    /\ op = "none"

ApplyBreakthroughScore ==
    /\ arg.analysed # <<>>
    /\ Apply("calculateBreakthroughScore",
             Returned(calculateBreakthroughScore(arg.analysed[1].indicators)))

ApplyDetectBreakthroughs ==
    Apply("detectBreakthroughs",
          Returned(detectBreakthroughs(arg.body, arg.analysed)))

NextBreakthrough == ApplyBreakthroughScore \/ ApplyDetectBreakthroughs

SpecBreakthrough == InitBreakthrough /\ [][NextBreakthrough]_vars

---------------------------------------------------------------------------
(* The trending score on its own *)

\* Math.random() * 50: the values of [0, 50) in steps of 1 / RandomResolution
RandomDraws == 0..(RandomRange * RandomResolution - 1)

\* a record with the two fields the score reads (a year of 0 is a missing
\* one), and the draw of the random factor
InitTrending ==
    /\ Idle
    /\ \E year \in {0, 2023, 2024, 2025}, velocity \in 0..MaxVelocity,
          random \in RandomDraws :
          arg = [paper |-> [year |-> year, citationVelocity |-> velocity],
                 random |-> random]
    /\ ret = Returned(0)
    /\ op = "none"

ApplyTrendingScore ==
    Apply("calculateTrendingScore",
          Returned(calculateTrendingScore(arg.paper, arg.random)))

NextTrending == ApplyTrendingScore

SpecTrending == InitTrending /\ [][NextTrending]_vars

---------------------------------------------------------------------------
(* The cache helpers of src/api/arxiv.js. The store is the redis client,  *)
(* which the repository only calls: each of its calls resolves or rejects, *)
(* whatever the state of the connection, and the texts under its keys may *)
(* have been written by anyone.                                            *)

CacheKeys == {"k1", "k2"}
CacheValues == {<<"v1">>, <<"v2">>}

\* a value JSON.stringify throws on (a cyclic object)
Cyclic == <<"cyclic">>

\* JSON.stringify(value)
JSONstringify(value) ==
    IF value = Cyclic
    THEN Thrown("Converting circular structure to JSON")
    ELSE Returned(<<"{">> \o value \o <<"}">>)

\* JSON.parse(text)
JSONparse(text) ==
    IF Len(text) >= 2 /\ Head(text) = "{" /\ text[Len(text)] = "}"
    THEN Returned(SubSeq(text, 2, Len(text) - 1))
    ELSE Thrown("Unexpected end of JSON input")

\* what redis.get can resolve to: null, the empty text, the text of a
\* value, a text that is not JSON
StoredTexts ==
    {Undefined, <<>>, <<"{", "v1">>}
        \cup {JSONstringify(v).value : v \in CacheValues}

\* the call of the client that rejects during one call of a helper
GetFaults == {"none", "connect", "get"}
SetFaults == {"none", "connect", "set"}

\* getCached with the deserialization after the try block
getCachedParsingOutside(store, key, fault) ==
    IF fault # "none" THEN Returned(Undefined)
    ELSE IF store[key] = Undefined \/ store[key] = <<>> THEN Returned(Undefined)
    ELSE JSONparse(store[key])

\* src/api/arxiv.js: getCached; the try block, then the catch
getCached(store, key, fault) ==
    LET tried ==
            IF fault = "connect" THEN Thrown("connect")
            ELSE IF fault = "get" THEN Thrown("get")
            ELSE LET cached == store[key]
                 IN IF cached = Undefined \/ cached = <<>>
                    THEN Returned(Undefined)
                    ELSE JSONparse(cached)
    IN IF tried.ok THEN tried ELSE Returned(Undefined)

\* src/api/arxiv.js: setCached; store is the store after the call
setCached(store, key, value, fault) ==
    LET text == JSONstringify(value)
        tried ==
            IF fault = "connect" THEN Thrown("connect")
            ELSE IF ~text.ok THEN text
            ELSE IF fault = "set" THEN Thrown("set")
            ELSE Returned(Undefined)
    IN [ret |-> Returned(Undefined),
        store |-> IF tried.ok THEN [store EXCEPT ![key] = text.value] ELSE store]

\* a process that has not called the cache yet
InitCache ==
    /\ Idle
    /\ \E store \in [CacheKeys -> StoredTexts] :
          arg = [store |-> store, open |-> FALSE, calls |-> 0,
                 last |-> [key |-> "none", fault |-> "none", cached |-> Undefined,
                           wasOpen |-> FALSE]]
    /\ ret = Returned(Undefined)
    /\ op = "none"

\* one call of a helper: redis.connect() opens the connection unless it
\* rejects
Called(store, key, fault, result, name) ==
    /\ arg' = [store |-> store,
               open |-> arg.open \/ fault # "connect",
               calls |-> arg.calls + 1,
               last |-> [key |-> key, fault |-> fault, cached |-> arg.store[key],
                         wasOpen |-> arg.open]]
    /\ ret' = result
    /\ op' = name
    /\ UNCHANGED <<pc, req, arxivP, semanticP, responses, caught>>

GetCached ==
    /\ arg.calls < MaxCalls
    /\ \E key \in CacheKeys, fault \in GetFaults :
          Called(arg.store, key, fault, getCached(arg.store, key, fault),
                 "getCached")

SetCached ==
    /\ arg.calls < MaxCalls
    /\ \E key \in CacheKeys, value \in CacheValues \cup {Cyclic},
          fault \in SetFaults :
          LET set == setCached(arg.store, key, value, fault)
          IN Called(set.store, key, fault, set.ret, "setCached")

NextCache == GetCached \/ SetCached

SpecCache == InitCache /\ [][NextCache]_vars

---------------------------------------------------------------------------
(* The field extractor (getField, extractText) on its own *)

\* tokens of an entry fragment: title elements with and without attributes,
\* an element whose name begins with "title", text and white space
FragmentTokens ==
    {"<title>", "<title type=\"html\">", "</title>", "<titles>", "</titles>",
     "a", " "}

InitField ==
    /\ Idle
    /\ \E entry \in SeqsUpTo(FragmentTokens, MaxFragmentLen),
          field \in {"title", "summary"} :
          arg = [entry |-> entry, field |-> field]
    /\ ret = Returned(<<>>)
    /\ op = "none"

ApplyGetField == Apply("getField", Returned(getField(arg.entry, arg.field)))

NextField == ApplyGetField

SpecField == InitField /\ [][NextField]_vars

---------------------------------------------------------------------------
(* What the claims speak of *)

\* a title lower-cased with all white space removed
NormalizedTitle(title) ==
    LET lower == [i \in DOMAIN title |-> ToLowerChar(title[i])]
    IN  SelectSeq(lower, NotSpace)

\* a title lower-cased with everything but a-z and 0-9 removed
AlnumTitle(title) ==
    LET lower == [i \in DOMAIN title |-> ToLowerChar(title[i])]
    IN  SelectSeq(lower, IsAlnum)

\* the elements of xs at the indices in I, in ascending order
At(xs, I) ==
    LET Chosen(i) == i \in I
        indices == SelectSeq([i \in DOMAIN xs |-> i], Chosen)
    IN  [k \in DOMAIN indices |-> xs[indices[k]]]

\* the first record of every key, in the order of xs
FirstOccurrences(xs, Key(_)) ==
    LET keys == [i \in DOMAIN xs |-> Key(xs[i].title)]
    IN  At(xs, {i \in DOMAIN xs : \A j \in 1..(i - 1) : keys[j] # keys[i]})

\* a record without the metrics the enhancement attaches
Unenhanced(r) == [f \in DOMAIN r \ {"metrics"} |-> r[f]]
Stripped(papers) == [i \in DOMAIN papers |-> Unenhanced(papers[i])]

Last == responses[Len(responses)]

\* the search action of the enhanced handler has answered
SearchDone ==
    /\ pc = "done"
    /\ req.handler = "enhanced"
    /\ req.method # "OPTIONS"
    /\ req.action \in SearchActions

SearchSucceeded ==
    SearchDone /\ Last.kind = "json" /\ Last.status = 200 /\ Last.json.success

\* the adapter outputs, primary archive first
MergedInput ==
    (IF arxivP.state = "fulfilled" THEN arxivP.value ELSE <<>>)
        \o (IF semanticP.state = "fulfilled" THEN semanticP.value ELSE <<>>)

ArxivFailed ==
    \/ arxivP.upstream.kind = "network"
    \/ arxivP.upstream.kind = "response" /\ ~arxivP.upstream.ok
ArxivSucceeded == arxivP.upstream.kind = "response" /\ arxivP.upstream.ok
SemanticFailed == semanticP.upstream.kind \in {"network", "notjson", "nodata"}
SemanticSucceeded == semanticP.upstream.kind = "data"

\* C1: the papers of a successful search response hold no two records with
\* the same dedup key (title lower-cased, white space removed).
C1_NoSharedDedupKey ==
    SearchSucceeded =>
        LET keys == [i \in DOMAIN Last.json.papers |->
                        NormalizedTitle(Last.json.papers[i].title)]
        IN  \A i, j \in DOMAIN keys : i # j => keys[i] # keys[j]

\* the merge dropped a duplicate and kept two records or more
C1_Witness ==
    /\ SearchSucceeded
    /\ Len(Last.json.papers) >= 2
    /\ Len(MergedInput) > Len(Last.json.papers)

\* C2: the papers of a successful search response are the first record of
\* every dedup key, in the concatenated adapter order; two records whose
\* titles differ only by case and white space leave the earlier one.
C2_FirstSeenWins ==
    SearchSucceeded =>
        /\ Stripped(Last.json.papers) = FirstOccurrences(MergedInput, NormalizedTitle)
        /\ (/\ Len(MergedInput) = 2
            /\ NormalizedTitle(MergedInput[1].title)
                   = NormalizedTitle(MergedInput[2].title))
               => Stripped(Last.json.papers) = <<MergedInput[1]>>

\* a citation-graph record was dropped for an archive record whose title
\* differs from it by case
C2_Witness ==
    /\ SearchSucceeded
    /\ Len(Last.json.papers) >= 2
    /\ \E i, j \in DOMAIN MergedInput :
          /\ i < j
          /\ MergedInput[i].source = "arxiv"
          /\ MergedInput[j].source = "semantic_scholar"
          /\ MergedInput[i].title # MergedInput[j].title
          /\ NormalizedTitle(MergedInput[i].title)
                 = NormalizedTitle(MergedInput[j].title)

\* C3, as claimed: both dedup functions keep the first record of every
\* title lower-cased with white space removed, so titles that differ in
\* punctuation are both kept.
C3_Original ==
    (op \in {"deduplicatePapers", "deduplicateByTitle"} /\ ret.ok)
        => ret.value = FirstOccurrences(arg, NormalizedTitle)

\* C3, amended: deduplicatePapers keeps the first record of every title
\* lower-cased with white space removed; deduplicateByTitle keeps the first
\* record of every title lower-cased with all but a-z and 0-9 removed.
C3_DedupKeys ==
    /\ (op = "deduplicatePapers" /\ ret.ok)
           => ret.value = FirstOccurrences(arg, NormalizedTitle)
    /\ (op = "deduplicateByTitle" /\ ret.ok)
           => ret.value = FirstOccurrences(arg, AlnumTitle)

\* deduplicateByTitle dropped a record that differs from an earlier one in
\* punctuation only
C3_Witness ==
    /\ op = "deduplicateByTitle"
    /\ ret.ok
    /\ Len(ret.value) < Len(arg)
    /\ \A i, j \in DOMAIN arg :
          i # j => NormalizedTitle(arg[i].title) # NormalizedTitle(arg[j].title)

\* C4: when some selected adapter fails and another succeeds, the search
\* answers 200, success, with the dedup of the succeeding adapters' records.
C4_AdapterFailureIsolated ==
    (/\ SearchDone
     /\ ArxivFailed \/ SemanticFailed
     /\ ArxivSucceeded \/ SemanticSucceeded)
        => /\ Last.kind = "json"
           /\ Last.status = 200
           /\ Last.json.success
           /\ Stripped(Last.json.papers)
                  = FirstOccurrences(
                        (IF ArxivSucceeded THEN arxivP.value ELSE <<>>)
                            \o (IF SemanticSucceeded THEN semanticP.value ELSE <<>>),
                        NormalizedTitle)

\* C5: when every upstream call of a request fails, the request is
\* answered with a server error and success = false.
C5_TotalFailureIsError ==
    (/\ pc = "done"
     /\ \/ /\ req.handler = "enhanced"
           /\ ArxivFailed \/ SemanticFailed
           /\ Selected(req.sources, "arxiv") => ArxivFailed
           /\ Selected(req.sources, "semantic") => SemanticFailed
        \/ /\ req.handler \in {"simple", "endpoint"}
           /\ ArxivFailed)
        => /\ Last.kind = "json"
           /\ Last.status = 500
           /\ "success" \in DOMAIN Last.json
           /\ ~Last.json.success
           /\ "error" \in DOMAIN Last.json

\* C6: an exception that reaches the catch of a handler is answered with a
\* server error whose body holds success = false and the message.
C6_ErrorEnvelope ==
    caught # "" =>
        /\ pc = "done"
        /\ Len(responses) = 1
        /\ Last.kind = "json"
        /\ Last.status = 500
        /\ "success" \in DOMAIN Last.json
        /\ ~Last.json.success
        /\ "error" \in DOMAIN Last.json
        /\ Last.json.error = caught

\* the feed holds no entry
NoEntries(text) == "<entry>" \notin Range(text)

\* a response is the success envelope with no paper and a count of 0
EmptySuccess(r) ==
    /\ r.kind = "json"
    /\ r.status = 200
    /\ r.json.success
    /\ r.json.papers = <<>>
    /\ IF "total" \in DOMAIN r.json THEN r.json.total = 0
       ELSE "count" \in DOMAIN r.json /\ r.json.count = 0

EntryCount(doc) == Cardinality({i \in DOMAIN doc : doc[i] = "<entry>"})

\* the index of the k-th token t of doc
NthIndex(doc, t, k) ==
    CHOOSE i \in DOMAIN doc :
        doc[i] = t /\ Cardinality({j \in 1..i : doc[j] = t}) = k

\* what follows the k-th <entry>, up to the next <entry> or the end
FragmentAfter(doc, k) ==
    SubSeq(doc, NthIndex(doc, "<entry>", k) + 1,
           IF k = EntryCount(doc) THEN Len(doc)
           ELSE NthIndex(doc, "<entry>", k + 1) - 1)

\* what lies between the k-th <entry> and the k-th </entry>
FragmentBetween(doc, k) ==
    SubSeq(doc, NthIndex(doc, "<entry>", k) + 1, NthIndex(doc, "</entry>", k) - 1)

IsEntryTag(t) == t \in {"<entry>", "</entry>"}

\* every <entry> is closed by an </entry> before the next <entry>
WellFormedEntries(doc) ==
    LET tags == SelectSeq(doc, IsEntryTag)
    IN  /\ Len(tags) % 2 = 0
        /\ \A k \in DOMAIN tags :
              tags[k] = IF k % 2 = 1 THEN "<entry>" ELSE "</entry>"

Parsers == {"SimpleParse", "parseArxivXML", "EndpointParse"}

\* C8, as claimed: every entry parser returns one record per <entry>
\* delimiter of the document.
C8_Original == op \in Parsers => Len(ret.value) = EntryCount(arg)

\* C8, amended: the two parseArxivXML return one record per <entry>
\* delimiter, in document order; the entry loop of the endpoint returns one
\* record per <entry> of a document whose every <entry> is closed by an
\* </entry>, in document order, and never more records than delimiters.
C8_RecordPerEntry ==
    /\ op = "SimpleParse" =>
          /\ Len(ret.value) = EntryCount(arg)
          /\ \A k \in DOMAIN ret.value :
                ret.value[k] = SimpleRecord(FragmentAfter(arg, k))
    /\ op = "parseArxivXML" =>
          /\ Len(ret.value) = EntryCount(arg)
          /\ \A k \in DOMAIN ret.value :
                ret.value[k] = EnhancedRecord(FragmentAfter(arg, k))
    /\ op = "EndpointParse" =>
          /\ Len(ret.value) <= EntryCount(arg)
          /\ WellFormedEntries(arg) =>
                /\ Len(ret.value) = EntryCount(arg)
                /\ \A k \in DOMAIN ret.value :
                      ret.value[k] = EndpointRecord(FragmentBetween(arg, k))

\* the endpoint parsed a document of two closed entries
C8_Witness ==
    /\ op = "EndpointParse"
    /\ WellFormedEntries(arg)
    /\ EntryCount(arg) = 2
    /\ Len(ret.value) = 2

\* the fragment holds no title element, or one without text
LacksTitle(fragment) ==
    \A i, j \in DOMAIN fragment :
        (/\ i < j
         /\ fragment[i] \in {"<title>", "<title type=\"html\">"}
         /\ fragment[j] = "</title>"
         /\ \A k \in 1..(i - 1) :
               fragment[k] \notin {"<title>", "<title type=\"html\">"}
         /\ \A k \in (i + 1)..(j - 1) : fragment[k] # "</title>")
            => \A k \in (i + 1)..(j - 1) : IsSpace(fragment[k])

\* the fragments a parser cut the document into
FragmentsOf(parser, doc) ==
    IF parser = "EndpointParse" THEN MatchEntries(doc) ELSE SplitEntries(doc)

\* C9: the record of an entry without a title (or with an empty one) has
\* the title "Untitled", whichever parser produced it.
C9_MissingTitleIsUntitled ==
    op \in Parsers =>
        \A k \in DOMAIN ret.value :
            LacksTitle(FragmentsOf(op, arg)[k]) => ret.value[k].title = Untitled

\* the first 300 characters of s, then the ellipsis exactly when s is
\* longer than 300 characters
ClaimedTruncation(s) ==
    [i \in 1..(IF Len(s) < 300 THEN Len(s) ELSE 300) |-> s[i]]
        \o (IF Len(s) > 300 THEN <<".", ".", ".">> ELSE <<>>)

\* C10: the truncation T of the parser is the claimed one, T(s) = s for
\* every s of at most 300 characters, and T(T(s)) = T(s).
C10_TruncationIdempotent ==
    /\ op = "Truncate" =>
          /\ ret.value = ClaimedTruncation(arg)
          /\ Len(arg) <= 300 => ret.value = arg
    /\ op = "TruncateTwice" => ret.value = ClaimedTruncation(arg)

\* a summary longer than 300 characters was truncated twice
C10_Witness ==
    /\ op = "TruncateTwice"
    /\ Len(arg) > 300
    /\ Len(ret.value) = 303

\* the days since the publication of the paper handed to the function
AgeDays == Today.day - arg.publicationDate.day

\* 30 times the months since publication, at least one month
Denominator == IF AgeDays > 30 THEN AgeDays ELSE 30

\* C11: calculateCitationVelocity returns 0 when the citation count or the
\* publication date is missing, and otherwise the citation count divided by
\* the months (of 30 days) since publication, at least 1, rounded to the
\* nearest integer; the divisor is positive for every date, future dates
\* included; 60 citations after 6 months give 10.
C11_CitationVelocity ==
    op = "calculateCitationVelocity" =>
        IF arg.citationCount = 0 \/ arg.publicationDate = NoDate
        THEN ret.value = 0
        ELSE /\ Denominator > 0
             /\ 2 * ret.value * Denominator - Denominator
                    <= 2 * 30 * arg.citationCount
             /\ 2 * 30 * arg.citationCount
                    < 2 * ret.value * Denominator + Denominator
             /\ (AgeDays = 180 /\ arg.citationCount = 60) => ret.value = 10
             /\ AgeDays <= 30 => ret.value = arg.citationCount

\* 60 citations, published 180 days ago
C11_Witness ==
    /\ op = "calculateCitationVelocity"
    /\ arg.publicationDate # NoDate
    /\ AgeDays = 180
    /\ arg.citationCount = 60
    /\ ret.value = 10

\* k occurs in s, whatever the case of either
OccursIn(k, s) ==
    /\ s # Undefined
    /\ \E i \in 1..(Len(s) - Len(k) + 1) :
          \A j \in 1..Len(k) : ToLowerChar(s[i + j - 1]) = ToLowerChar(k[j])

\* C12: appending a keyword k to the interest list never decreases the
\* relevance score of a record, and increases it by 10 when k occurs in the
\* title or in the abstract of the record.
C12_RelevanceMonotonic ==
    [][op' = "calculateRelevanceScoreAppended" =>
          LET k == arg'.interests[Len(arg'.interests)]
          IN  /\ arg'.paper = arg.paper
              /\ arg'.interests = Append(arg.interests, k)
              /\ ret'.value >= ret.value
              /\ (OccursIn(k, arg.paper.title) \/ OccursIn(k, arg.paper.abstract))
                     => ret'.value = ret.value + 10]_vars

\* a keyword of the abstract was appended to a list that held a keyword of
\* the title
C12_Witness ==
    /\ op = "calculateRelevanceScoreAppended"
    /\ Len(arg.interests) = 2
    /\ OccursIn(arg.interests[1], arg.paper.title)
    /\ OccursIn(arg.interests[2], arg.paper.abstract)
    /\ arg.interests[1] # arg.interests[2]
    /\ ret.value >= 20


\* title + ' ' + abstract of a record, a missing title reading "undefined"
JoinedText(paper) ==
    (IF paper.title = Undefined THEN <<"u","n","d","e","f","i","n","e","d">>
     ELSE paper.title) \o <<" ">> \o paper.abstract

\* the entries of the interest list that occur in the joined text
MatchingEntries(paper, interests) ==
    {i \in DOMAIN interests : OccursIn(interests[i], JoinedText(paper))}

\* C13: the relevance score is 10 for every entry of the interest list that
\* occurs, whatever the case, in title + ' ' + abstract, plus 5 for a year
\* of 2023 or later, plus 5 for more than 100 citations; it is 0 for a
\* record with none of the three.
C13_RelevanceScore ==
    op \in {"calculateRelevanceScore", "calculateRelevanceScoreAppended"} =>
        /\ ret.value = 10 * Cardinality(MatchingEntries(arg.paper, arg.interests))
                           + (IF arg.paper.year >= 2023 THEN 5 ELSE 0)
                           + (IF arg.paper.citations > 100 THEN 5 ELSE 0)
        /\ (/\ MatchingEntries(arg.paper, arg.interests) = {}
            /\ arg.paper.year < 2023
            /\ arg.paper.citations <= 100) => ret.value = 0

\* a recent, much cited record scored for the same keyword twice
C13_Witness ==
    /\ op = "calculateRelevanceScore"
    /\ Len(arg.interests) = 2
    /\ arg.interests[1] = arg.interests[2]
    /\ arg.paper.year = 2023
    /\ arg.paper.citations = 101
    /\ ret.value = 30


\* a scored list has been answered: the personalized feed or the trending
\* list
FeedDone ==
    /\ pc = "done"
    /\ req.handler = "enhanced"
    /\ req.method # "OPTIONS"
    /\ req.action \in FeedActions

\* the score the answered list is sorted by, and the length it is cut to
ScoreField == IF req.action = "personalized" THEN "relevanceScore" ELSE "trendingScore"
ListLimit == IF req.action = "personalized" THEN 20 ELSE 10

\* the records of papers whose score is v, in the order of papers
WithScore(papers, v) ==
    LET Scores(p) == p[ScoreField] = v
    IN  SelectSeq(papers, Scores)

\* C14: the papers of the personalized feed and of the trending list are in
\* descending order of their score, and the records of one score are in the
\* order they were fetched in.
C14_SortedByScoreStable ==
    FeedDone =>
        LET out == Last.json.papers
            fetched == semanticP.value
        IN  /\ Last.status = 200
            /\ Len(out) = IF Len(fetched) < ListLimit THEN Len(fetched) ELSE ListLimit
            /\ \A i, j \in DOMAIN out :
                  i < j => out[i][ScoreField] >= out[j][ScoreField]
            /\ \A k \in DOMAIN out :
                  LET same == WithScore(out, out[k][ScoreField])
                  IN  same = SubSeq(WithScore(fetched, out[k][ScoreField]), 1, Len(same))

\* the sort of the personalized feed moved a record, and left two different
\* records of one score in their order
C14_Witness ==
    /\ FeedDone
    /\ req.action = "personalized"
    /\ Last.json.papers # semanticP.value
    /\ \E i, j \in DOMAIN Last.json.papers :
          /\ i < j
          /\ Last.json.papers[i] # Last.json.papers[j]
          /\ Last.json.papers[i].relevanceScore = Last.json.papers[j].relevanceScore


\* the indices of the path separators of an id
Slashes(id) == {i \in DOMAIN id : id[i] \in {"/", "/abs/"}}

\* what follows the first "/abs/" of an id
AfterAbs(id) ==
    LET first == CHOOSE i \in DOMAIN id :
                     id[i] = "/abs/" /\ \A j \in 1..(i - 1) : id[j] # "/abs/"
    IN  SubSeq(id, first + 1, Len(id))

\* what follows the last path separator of an id
LastSegment(id) ==
    LET last == CHOOSE i \in Slashes(id) : \A j \in Slashes(id) : j <= i
    IN  SubSeq(id, last + 1, Len(id))

\* C15: the identifier of an entry is the part of its id after "/abs/" when
\* the id holds "/abs/", else the last path segment of the id, else the id
\* itself; the derivation throws for no id.
C15_ExternalId ==
    op \in {"SimpleArxivId", "ArxivIdOf"} =>
        /\ ret.ok
        /\ ret.value = IF "/abs/" \in Range(arg) THEN AfterAbs(arg)
                       ELSE IF Slashes(arg) # {} THEN LastSegment(arg)
                       ELSE arg

\* C16: the search answers only when no adapter call is pending, and its
\* papers are the dedup of the archive's records followed by the
\* citation-graph's records, whichever adapter settled first.
C16_MergeAfterAllSettled ==
    SearchDone =>
        /\ arxivP.state # "pending"
        /\ semanticP.state # "pending"
        /\ Selected(req.sources, "arxiv") => arxivP.state = "fulfilled"
        /\ Selected(req.sources, "semantic") => semanticP.state = "fulfilled"
        /\ SearchSucceeded =>
              Stripped(Last.json.papers)
                  = FirstOccurrences(arxivP.value \o semanticP.value, NormalizedTitle)

\* the citation-graph adapter settled first, and the records of the archive
\* come first all the same
C16_Witness ==
    /\ SearchSucceeded
    /\ semanticP.at = 1
    /\ arxivP.at = 2
    /\ Len(Last.json.papers) >= 2
    /\ Last.json.papers[1].source = "arxiv"
    /\ Last.json.papers[Len(Last.json.papers)].source = "semantic_scholar"


\* C17: a paper object of the citation-graph service with a missing field
\* does not abort the search: the answer is a success, and every record of
\* it has a title, the placeholder where the upstream gave none.
C17_MissingFieldTolerated ==
    (SearchDone /\ SemanticSucceeded) =>
        /\ caught = ""
        /\ Last.kind = "json"
        /\ Last.status = 200
        /\ Last.json.success
        /\ \A i \in DOMAIN Last.json.papers : IsString(Last.json.papers[i].title)


\* C18: the papers of the personalized feed hold no two records with the
\* same dedup key (title lower-cased, white space removed).
C18_FeedNoSharedDedupKey ==
    (FeedDone /\ req.action = "personalized") =>
        \A i, j \in DOMAIN Last.json.papers :
            i # j => NormalizedTitle(Last.json.papers[i].title)
                         # NormalizedTitle(Last.json.papers[j].title)


\* the author names of an entry fragment, in document order
AuthorsOf(entry) ==
    [k \in 1..Cardinality({i \in DOMAIN entry : entry[i] = "<name>"}) |->
        <<entry[NthIndex(entry, "<name>", k) + 1]>>]

\* the names, separated by ", "
RECURSIVE Listed(_)
Listed(names) ==
    IF names = <<>> THEN <<>>
    ELSE IF Len(names) = 1 THEN names[1]
    ELSE names[1] \o <<",", " ">> \o Listed(Tail(names))

\* C19: the authors string of a parser that caps the author list is the
\* first 3 names in document order, with " et al." appended exactly when
\* the entry has more than 3 authors.
C19_EtAlBeyondThree ==
    op \in {"SimpleRecord", "EnhancedRecord"} =>
        LET names == AuthorsOf(arg)
        IN  ret.value.authors
                = Listed(SubSeq(names, 1, IF Len(names) < 3 THEN Len(names) ELSE 3))
                      \o (IF Len(names) > 3
                          THEN <<" ", "e", "t", " ", "a", "l", ".">> ELSE <<>>)

\* the term attributes of the category elements of an entry fragment, in
\* document order
CategoryTermsOf(entry) ==
    LET IsCategoryElement(t) == t \in CategoryTags
        elements == SelectSeq(entry, IsCategoryElement)
    IN  [k \in DOMAIN elements |-> TermOf(elements[k])]

\* C20: the categories of a record are the term attributes of all the
\* category elements of the entry, in document order, duplicates kept, and
\* of no other element.
C20_AllCategoryTerms ==
    op \in {"SimpleRecord", "EndpointRecord"} =>
        ret.value.categories = CategoryTermsOf(arg)



\* a signal value of the pool or the grid, counted in halves
HalvesOf(x) == IF x = Zero THEN 0 ELSE IF x = Half THEN 1 ELSE 2

\* the weights in hundredths
WeightPercent == <<30, 25, 15, 15, 10, 5>>

RECURSIVE SumTo(_, _)
SumTo(f, n) == IF n = 0 THEN 0 ELSE f[n] + SumTo(f, n - 1)

\* the weighted sum of six signals, exactly, in two-hundredths
WeightedSum(indicators) ==
    SumTo([i \in 1..Len(Weights) |->
             WeightPercent[i] * HalvesOf(indicators[Weights[i].key])],
          Len(Weights))

\* 0.7 in two-hundredths
SevenTenths == 7 * 20

\* C21: detectBreakthroughs returns exactly the analysed papers whose
\* weighted sum 0.30*noveltyScore + 0.25*performanceJump +
\* 0.15*citationVelocity + 0.15*industryAdoption + 0.10*socialBuzz +
\* 0.05*expertOpinions is strictly greater than 0.7 (a paper whose sum equals
\* 0.7 is not flagged), ordered by descending weighted sum.
C21_BreakthroughsAboveThreshold ==
    op = "detectBreakthroughs" =>
        LET flagged == ret.value.breakthroughs
        IN /\ {flagged[i].paper : i \in 1..Len(flagged)}
                = {arg.analysed[i].paper : i \in
                     {j \in 1..Len(arg.analysed) :
                        WeightedSum(arg.analysed[j].indicators) > SevenTenths}}
           /\ \A i, j \in 1..Len(flagged) :
                 i < j => WeightedSum(flagged[i].indicators)
                            >= WeightedSum(flagged[j].indicators)
           /\ \A i, j \in 1..Len(flagged) :
                 i # j => flagged[i].paper # flagged[j].paper


\* b of the trending score: 30 for a year from 2024 on, plus 20 for a
\* citation velocity above 10
TrendingBase(paper) ==
    (IF paper.year >= 2024 THEN 30 ELSE 0)
        + (IF paper.citationVelocity > 10 THEN 20 ELSE 0)

\* C22: calculateTrendingScore returns round(b + r), the integer nearest to
\* b + r (a half rounded up), for the random value r in [0, 50); the score
\* is an integer with b <= score <= b + 50 and lies within 0..100.
C22_TrendingScoreRange ==
    op = "calculateTrendingScore" =>
        LET b == TrendingBase(arg.paper)
            score == ret.value
            \* 2 * RandomResolution * (b + r)
            doubled == 2 * (b * RandomResolution + arg.random)
        IN /\ score \in Int
           /\ (2 * score - 1) * RandomResolution <= doubled
           /\ doubled < (2 * score + 1) * RandomResolution
           /\ b <= score
           /\ score <= b + 50
           /\ score \in 0..100

\* the highest score: both boosts and a random factor of 49.5 or more
C22_Witness ==
    /\ op = "calculateTrendingScore"
    /\ TrendingBase(arg.paper) = 50
    /\ 2 * arg.random >= (2 * RandomRange - 1) * RandomResolution
    /\ ret.value = 100


\* the list the annotation of a feed maps over: the records fetched, in the
\* order of the calls
FeedInput ==
    IF req.action = "personalized"
    THEN Flatten([i \in DOMAIN req.interests |->
                    fetchSemanticScholarPapers(semanticP.upstream.answers[i])])
    ELSE fetchSemanticScholarPapers(semanticP.upstream.answer)

\* out is the list input with exactly the fields of added attached to each
\* record: as many records, in the same order, every field of the input
\* record with its value
Annotated(input, out, added) ==
    /\ Len(out) = Len(input)
    /\ \A i \in DOMAIN input :
          /\ DOMAIN input[i] \cap added = {}
          /\ DOMAIN out[i] = DOMAIN input[i] \cup added
          /\ \A f \in DOMAIN input[i] : out[i][f] = input[i][f]

\* C23: enhancement is purely additive. The papers of a successful search
\* are the deduplicated records, one for one and in their order, each with
\* all its fields unchanged and the field metrics attached; the scored
\* records of the personalized feed (of the trending list) before sorting
\* are the fetched records, one for one and in their order, each with all
\* its fields unchanged and relevanceScore and personalizedReason
\* (trendingScore and trendingReason) attached; the adapter results the
\* search merged are what the adapters returned.
C23_EnhancementAdditive ==
    /\ SearchSucceeded =>
          /\ Annotated(deduplicatePapers(MergedInput).value, Last.json.papers,
                       {"metrics"})
          /\ arxivP.state = "fulfilled" =>
                arxivP.value = fetchArxivPapers(arxivP.upstream)
          /\ semanticP.state = "fulfilled" =>
                semanticP.value = fetchSemanticScholarPapers(semanticP.upstream)
    /\ FeedDone =>
          Annotated(FeedInput, semanticP.value,
                    IF req.action = "personalized"
                    THEN {"relevanceScore", "personalizedReason"}
                    ELSE {"trendingScore", "trendingReason"})

\* a search that enhanced records of both sources
C23_Witness ==
    /\ SearchSucceeded
    /\ \E i, j \in DOMAIN Last.json.papers :
          /\ Last.json.papers[i].source = "arxiv"
          /\ Last.json.papers[j].source = "semantic_scholar"
          /\ Last.json.papers[i].metrics # Last.json.papers[j].metrics


\* the last call of a cache helper met a failure of the store: connect, get
\* or set rejected, or the text read is not JSON. (A value that cannot be
\* serialized makes setCached fail as well; the formula asks the same of
\* every call of setCached.)
CacheFailed ==
    \/ arg.last.fault # "none"
    \/ /\ op = "getCached"
       /\ arg.last.cached \notin {Undefined, <<>>}
       /\ \A v \in CacheValues : arg.last.cached # <<"{">> \o v \o <<"}">>

\* C24: cache failures are never fatal. Every call of getCached and of
\* setCached returns, whatever calls came before it in the process; a call
\* of getCached that met a failure of the store (connect, get or the
\* deserialization throwing) returns null; a call of setCached returns
\* nothing.
C24_CacheFailuresNotFatal ==
    op \in {"getCached", "setCached"} =>
        /\ ret.ok
        /\ op = "getCached" /\ CacheFailed => ret.value = Undefined
        /\ op = "setCached" => ret.value = Undefined

\* a call on an open connection that reads a text that is not JSON
C24_Witness ==
    /\ op = "getCached"
    /\ arg.calls >= 2
    /\ arg.last.wasOpen
    /\ arg.last.fault = "none"
    /\ CacheFailed


\* the opening tags of the elements named exactly field, with or without
\* attributes
ExactOpenTagsOf(field) == OpenTagsOf(field) \ {"<titles>"}

\* the positions of the opening tags of the elements named exactly field:
\* an opening tag that its closing tag follows
ElementsOf(entry, field) ==
    {i \in DOMAIN entry :
        /\ entry[i] \in ExactOpenTagsOf(field)
        /\ \E j \in DOMAIN entry : j > i /\ entry[j] = CloseTagOf(field)}

\* the text content of the element opening at i, trimmed
TextContent(entry, field, i) ==
    LET close == CHOOSE j \in DOMAIN entry :
                    /\ j > i
                    /\ entry[j] = CloseTagOf(field)
                    /\ \A k \in (i + 1)..(j - 1) : entry[k] # CloseTagOf(field)
    IN Trim(SubSeq(entry, i + 1, close - 1))

\* C25: the field extractor returns the white-space-trimmed text content of
\* the first element with exactly the name asked for, also when its opening
\* tag carries attributes, and the empty string when the fragment has no
\* such element; it never throws.
C25_FirstElementOfExactName ==
    op = "getField" =>
        LET elements == ElementsOf(arg.entry, arg.field)
        IN /\ ret.ok
           /\ elements = {} => ret.value = <<>>
           /\ elements # {} =>
                 ret.value = TextContent(arg.entry, arg.field,
                                 CHOOSE i \in elements : \A j \in elements : i <= j)


\* a request has reached the enhanced handler
EnhancedRequest == pc # "idle" /\ req.handler = "enhanced"

\* the adapter calls the handler started have all settled
AdaptersSettled == arxivP.state # "pending" /\ semanticP.state # "pending"

\* C26: every request to the enhanced handler is answered exactly once, for
\* every method, action, sources selection and adapter outcome: at no time
\* has the handler sent more than one response, it has sent none while an
\* adapter call it started is pending, a response once sent stays the only
\* one, and a request received is eventually answered.
C26_AnsweredExactlyOnce ==
    /\ [](EnhancedRequest =>
            /\ Len(responses) <= 1
            /\ responses # <<>> => AdaptersSettled)
    /\ [][EnhancedRequest /\ responses # <<>> => responses' = responses]_vars
    /\ (EnhancedRequest ~> (EnhancedRequest /\ Len(responses) = 1))

\* a search answered after one adapter failed on the network and the other
\* got a malformed payload
C26_Witness ==
    /\ EnhancedRequest
    /\ req.action \in SearchActions
    /\ Len(responses) = 1
    /\ arxivP.upstream.kind = "network"
    /\ semanticP.upstream.kind = "notjson"


\* the records of xs have string titles
StringTitles(xs) == \A i \in DOMAIN xs : IsString(xs[i].title)

\* no two records of xs have the same dedup key
DistinctKeys(xs) ==
    \A i, j \in DOMAIN xs :
        i # j => NormalizedTitle(xs[i].title) # NormalizedTitle(xs[j].title)

\* C27: for a list xs of records with string titles,
\* deduplicatePapers(deduplicatePapers(xs)) equals deduplicatePapers(xs),
\* and deduplicatePapers returns xs unchanged when its dedup keys are
\* pairwise distinct.
C27_DedupIdempotent ==
    /\ op = "deduplicatePapersTwice" =>
          /\ ret.ok
          /\ ret.value.twice = ret.value.once
    /\ op = "deduplicatePapers" /\ StringTitles(arg) =>
          /\ ret.ok
          /\ DistinctKeys(arg) => ret.value = arg

\* a list with a repeated key, deduplicated twice, that keeps two records
C27_Witness ==
    /\ op = "deduplicatePapersTwice"
    /\ StringTitles(arg)
    /\ ~DistinctKeys(arg)
    /\ Len(ret.value.twice) = 2

===========================================================================
